---- MODULE Spec2Model ----
\* A model of the library backend's request handlers (controllers.ts), the
\* zod / mongoose schemas they validate against (schema.ts) and the response
\* envelope helpers (utils.ts).  The Book and Borrow collections are the
\* shared state; every borrowBook request is a process that advances from one
\* await point to the next, so that requests interleave exactly where the
\* handler suspends.  createBook, updateBook and deleteBook contain a single
\* persistence call and are modelled as one step taken at that call.
\*
\* The database is an external collaborator.  Its contract is modelled as
\* MongoDB documents it: a multi-document transaction reads from the snapshot
\* taken at its first operation, buffers its writes until commit, and a write
\* inside a transaction fails with a write conflict when the document was
\* modified after the snapshot or is being written by another open
\* transaction; a write outside a transaction waits for an open transaction
\* that has written the same document.  A commit either applies every
\* buffered write or none.
EXTENDS Integers, Sequences, FiniteSets, TLC

\* ---------------------------------------------------------------- bounds

\* Book ids the database can hand out (1..MaxBooks); MaxBooks + 1 is a
\* well-formed id that never names a Book.
MaxBooks == 1
\* Largest copies value, and largest quantity, a client sends.
MaxCopies == 2
\* The wall clock runs from 0 to MaxTime.
MaxTime == 1
\* borrowBook requests a run receives; they may all be in flight together.
MaxReq == 2
\* Books the catalogue specification creates (at least MaxBooks).
MaxCatalogue == 2

\* ------------------------------------------------------- JSON values

\* A JSON number is kept in halves so that a non-integer can be sent:
\* Num(n) is the integer n, Frac(n) is n + 0.5.
Num(n) == 2 * n
Frac(n) == 2 * n + 1
IsInteger(h) == h % 2 = 0
IntOf(h) == h \div 2

\* A string is a sequence of one-character strings.
Str(c) == <<c>>
RECURSIVE TrimStart(_)
TrimStart(s) ==
    IF s # <<>> /\ Head(s) = " " THEN TrimStart(Tail(s)) ELSE s
RECURSIVE TrimEnd(_)
TrimEnd(s) ==
    IF s # <<>> /\ s[Len(s)] = " " THEN TrimEnd(SubSeq(s, 1, Len(s) - 1)) ELSE s
Trim(s) == TrimEnd(TrimStart(s))

\* null / undefined
Null == [isNull |-> TRUE]

\* A message is a sequence of parts, so that a number can be spliced in.
Msg(text) == <<text>>

\* An id string: a positive number n stands for the 24 hex digit string of
\* ObjectId n, 0 for a non-empty string that is no ObjectId, -1 for "".
EmptyIdString == -1
MalformedIdString == 0
IdStringLength(s) == IF s = EmptyIdString THEN 0 ELSE 24
\* No test of the id's form: every string passes.
ObjectIdIsValidUnchecked(s) == TRUE
ObjectIdIsValid(s) == s >= 1

\* A dueDate string: a number t >= 0 stands for the ISO-8601 text of instant
\* t, -1 for a string that is no ISO date-time.
NotIsoString == -1
IsIsoDatetime(d) == d >= 0

\* ------------------------------------------------ response envelope (utils.ts)

ApiResponse(message, data) ==
    [success |-> TRUE, message |-> message, data |-> data]

createValidationError(message, errors) ==
    [success |-> FALSE, message |-> message,
     error |-> [name |-> "ValidationError", errors |-> errors]]

\* No rule-specific context: the default {} of createFieldError.
NoProperties == <<>>

\* { message, type: kind, ...properties }: a key of properties wins.
createFieldError(field, message, kind, value, properties) ==
    field :> [message |-> message,
              name |-> "ValidatorError",
              properties |-> properties @@ [message |-> message, type |-> kind],
              kind |-> kind,
              path |-> field,
              value |-> value]

createGenericError(message, name) ==
    [success |-> FALSE, message |-> message, error |-> [name |-> name]]

\* The name createGenericError takes when the caller gives none.
DefaultErrorName == "Error"

\* issue.path.join('.'): the schemas are flat, a path has one segment (none
\* for an issue about the body as a whole).
JoinPath(path) == IF path = <<>> THEN "" ELSE path[1]

\* The switch of convertZodError: the rule-specific keys of properties.
ZodIssueProperties(issue) ==
    LET base == [message |-> issue.message, type |-> issue.code]
    IN  CASE issue.code = "too_small" /\ issue.type = "number" ->
                [min |-> issue.minimum] @@ base
          [] issue.code = "too_small" /\ issue.type = "string" ->
                [minLength |-> issue.minimum] @@ base
          [] issue.code = "too_big" /\ issue.type = "number" ->
                [max |-> issue.maximum] @@ base
          [] issue.code = "too_big" /\ issue.type = "string" ->
                [maxLength |-> issue.maximum] @@ base
          [] issue.code = "invalid_enum_value" ->
                [enum |-> issue.options] @@ base
          [] OTHER -> base

\* (issue as any).received || null: a missing or falsy received gives null.
ZodIssueValue(issue) ==
    IF "received" \in DOMAIN issue /\ issue.received # "" THEN issue.received ELSE Null

ZodFieldError(issue) ==
    [message |-> issue.message,
     name |-> "ValidatorError",
     properties |-> ZodIssueProperties(issue),
     kind |-> issue.code,
     path |-> JoinPath(issue.path),
     value |-> ZodIssueValue(issue)]

\* errors[field] = ... for each issue in turn: a later issue of the same
\* field replaces the earlier one.
RECURSIVE ZodErrors(_)
ZodErrors(issues) ==
    IF issues = <<>> THEN <<>>
    ELSE LET last == issues[Len(issues)]
         IN  (JoinPath(last.path) :> ZodFieldError(last))
                 @@ ZodErrors(SubSeq(issues, 1, Len(issues) - 1))

convertZodError(issues) ==
    createValidationError(Msg("Validation failed"), ZodErrors(issues))

\* res.status(code).json(payload)
Respond(status, json) == [status |-> status, json |-> json]

\* ------------------------------------------------------ zod schemas (schema.ts)

Has(body, key) == key \in DOMAIN body

\* zod's issue for a required key that is absent.
RequiredIssue(key, expected) ==
    [path |-> <<key>>, code |-> "invalid_type", message |-> Msg("Required"),
     expected |-> expected, received |-> "undefined"]

\* book: z.string().min(1).refine(ObjectId.isValid).  A failed min leaves the
\* value dirty, not aborted, so the refinement still runs.
BorrowBookIdIssues(body) ==
    IF ~Has(body, "book") THEN <<RequiredIssue("book", "string")>>
    ELSE (IF IdStringLength(body.book) < 1
          THEN <<[path |-> <<"book">>, code |-> "too_small",
                  message |-> Msg("Book ID is required"),
                  type |-> "string", minimum |-> 1]>>
          ELSE <<>>)
         \o
         (IF ~ObjectIdIsValid(body.book)
          THEN <<[path |-> <<"book">>, code |-> "custom",
                  message |-> Msg("Invalid book ID format")]>>
          ELSE <<>>)

\* quantity: z.number().int().min(1); both checks run.
BorrowQuantityIssues(body) ==
    IF ~Has(body, "quantity") THEN <<RequiredIssue("quantity", "number")>>
    ELSE (IF ~IsInteger(body.quantity)
          THEN <<[path |-> <<"quantity">>, code |-> "invalid_type",
                  message |-> Msg("Quantity must be an integer"),
                  expected |-> "integer", received |-> "float"]>>
          ELSE <<>>)
         \o
         (IF body.quantity < Num(1)
          THEN <<[path |-> <<"quantity">>, code |-> "too_small",
                  message |-> Msg("Quantity must be a positive integer"),
                  type |-> "number", minimum |-> 1]>>
          ELSE <<>>)

\* new Date(date) > new Date(): an unparsable date compares false.
DueDateInFuture(dueDate, clock) == IsIsoDatetime(dueDate) /\ dueDate > clock

\* dueDate without its refinement: any date-time passes.
BorrowDueDateAnyDatetime(body, clock) ==
    IF ~Has(body, "dueDate") THEN <<RequiredIssue("dueDate", "string")>>
    ELSE IF ~IsIsoDatetime(body.dueDate)
         THEN <<[path |-> <<"dueDate">>, code |-> "invalid_string",
                 message |-> Msg("Due date must be a valid ISO date"),
                 validation |-> "datetime"]>>
         ELSE <<>>

\* dueDate: z.string().datetime().refine(date > now).
BorrowDueDateIssues(body, clock) ==
    IF ~Has(body, "dueDate") THEN <<RequiredIssue("dueDate", "string")>>
    ELSE (IF ~IsIsoDatetime(body.dueDate)
          THEN <<[path |-> <<"dueDate">>, code |-> "invalid_string",
                  message |-> Msg("Due date must be a valid ISO date"),
                  validation |-> "datetime"]>>
          ELSE <<>>)
         \o
         (IF ~DueDateInFuture(body.dueDate, clock)
          THEN <<[path |-> <<"dueDate">>, code |-> "custom",
                  message |-> Msg("Due date must be in the future")]>>
          ELSE <<>>)

\* BorrowCreateSchema.parse: the issues it throws, in key order.
BorrowCreateSchemaIssues(body, clock) ==
    BorrowBookIdIssues(body) \o BorrowQuantityIssues(body)
        \o BorrowDueDateIssues(body, clock)

\* BorrowCreateSchema.parse: the value it returns when there is no issue.
BorrowCreateSchemaData(body) ==
    [book |-> body.book, quantity |-> IntOf(body.quantity), dueDate |-> body.dueDate]

\* The genre enumeration of both schemas.
Genres == {"FICTION", "NON_FICTION", "SCIENCE", "HISTORY", "BIOGRAPHY", "FANTASY"}

GenreMessage ==
    Msg("Genre must be one of: FICTION, NON_FICTION, SCIENCE, HISTORY, BIOGRAPHY, FANTASY")

\* The ISBN pattern.  The characters "1" and "2" each abbreviate a complete,
\* well-formed ISBN-10 body; a text matches when it is exactly one of them.
IsbnSymbols == {"1", "2"}
IsbnRegexTest(s) == Len(s) = 1 /\ s[1] \in IsbnSymbols

\* z.string().min(1, message).trim(): the check sees the untrimmed text.
RequiredStringIssues(body, key, message, partial) ==
    IF ~Has(body, key)
    THEN IF partial THEN <<>> ELSE <<RequiredIssue(key, "string")>>
    ELSE IF Len(body[key]) < 1
         THEN <<[path |-> <<key>>, code |-> "too_small", message |-> Msg(message),
                 type |-> "string", minimum |-> 1]>>
         ELSE <<>>

BookGenreIssues(body, partial) ==
    IF ~Has(body, "genre")
    THEN IF partial THEN <<>>
         ELSE <<[path |-> <<"genre">>, code |-> "invalid_type",
                 message |-> GenreMessage, expected |-> "enum",
                 received |-> "undefined"]>>
    ELSE IF body.genre \notin Genres
         THEN <<[path |-> <<"genre">>, code |-> "invalid_enum_value",
                 message |-> GenreMessage, options |-> Genres,
                 received |-> body.genre]>>
         ELSE <<>>

\* isbn: min(1), then trim, then the pattern on the trimmed text.
BookIsbnIssues(body, partial) ==
    RequiredStringIssues(body, "isbn", "ISBN is required", partial)
    \o
    (IF Has(body, "isbn") /\ ~IsbnRegexTest(Trim(body.isbn))
     THEN <<[path |-> <<"isbn">>, code |-> "invalid_string",
             message |-> Msg("Please enter a valid ISBN"), validation |-> "regex"]>>
     ELSE <<>>)

\* copies without min(0): any integer passes.
BookCopiesAnyInteger(body, partial) ==
    IF ~Has(body, "copies")
    THEN IF partial THEN <<>> ELSE <<RequiredIssue("copies", "number")>>
    ELSE IF ~IsInteger(body.copies)
         THEN <<[path |-> <<"copies">>, code |-> "invalid_type",
                 message |-> Msg("Copies must be an integer"),
                 expected |-> "integer", received |-> "float"]>>
         ELSE <<>>

\* copies: z.number().int().min(0).
BookCopiesIssues(body, partial) ==
    IF ~Has(body, "copies")
    THEN IF partial THEN <<>> ELSE <<RequiredIssue("copies", "number")>>
    ELSE (IF ~IsInteger(body.copies)
          THEN <<[path |-> <<"copies">>, code |-> "invalid_type",
                  message |-> Msg("Copies must be an integer"),
                  expected |-> "integer", received |-> "float"]>>
          ELSE <<>>)
         \o
         (IF body.copies < Num(0)
          THEN <<[path |-> <<"copies">>, code |-> "too_small",
                  message |-> Msg("Copies cannot be negative"),
                  type |-> "number", minimum |-> 0]>>
          ELSE <<>>)

\* BookCreateSchema (partial = FALSE) and BookUpdateSchema = .partial().
BookSchemaIssues(body, partial) ==
    RequiredStringIssues(body, "title", "Book title is required", partial)
        \o RequiredStringIssues(body, "author", "Author name is required", partial)
        \o BookGenreIssues(body, partial)
        \o BookIsbnIssues(body, partial)
        \o BookCopiesIssues(body, partial)

\* The parsed value: the keys the body has, strings trimmed.  available is
\* default(true).optional(): the outer optional returns undefined for an
\* absent key, so no default is filled in here.
\* The parsed value of a key with .trim() left out.
BookSchemaFieldUntrimmed(body, key) ==
    IF key = "copies" THEN IntOf(body.copies) ELSE body[key]

BookSchemaField(body, key) ==
    CASE key \in {"title", "author", "isbn", "description"} -> Trim(body[key])
      [] key = "copies" -> IntOf(body.copies)
      [] OTHER -> body[key]

\* The parsed value with z.boolean().default(true) filled in for an absent
\* available.
BookSchemaDataWithDefault(body) ==
    LET data == [key \in DOMAIN body |-> BookSchemaField(body, key)]
    IN  IF Has(data, "available") THEN data ELSE data @@ [available |-> TRUE]

BookSchemaData(body) ==
    [key \in DOMAIN body |-> BookSchemaField(body, key)]

BookCreateSchemaIssues(body) == BookSchemaIssues(body, FALSE)
BookUpdateSchemaIssues(body) == BookSchemaIssues(body, TRUE)

\* ------------------------------------------- mongoose schemas (schema.ts)

\* bookSchema applied to a new document: available defaults to true.
BookDefaults(data) ==
    IF Has(data, "available") THEN data ELSE data @@ [available |-> TRUE]

\* bookSchema's validators on the paths a document or an update sets.
\* required rejects the empty string.
BookPathsValid(data) ==
    /\ Has(data, "title") => data.title # <<>>
    /\ Has(data, "author") => data.author # <<>>
    /\ Has(data, "genre") => data.genre \in Genres
    /\ Has(data, "isbn") => data.isbn # <<>> /\ IsbnRegexTest(data.isbn)
    /\ Has(data, "copies") => data.copies >= 0

\* borrowSchema's validators, run by save() against the clock at that moment.
BorrowDocValid(doc, clock) ==
    /\ doc.quantity >= 1
    /\ doc.dueDate > clock

\* ------------------------------------------------------------------ state

VARIABLES
    books,             \* the Book collection: id -> document, Null when absent
    borrows,           \* the Borrow collection, in insertion order
    nextId,            \* the next Book id the database hands out
    now,               \* the wall clock
    req,               \* the borrowBook requests, one record per slot
    copiesAtCreation   \* history: the copies each Book was created with

vars == <<books, borrows, nextId, now, req, copiesAtCreation>>

BookIds == 1..MaxCatalogue
Reqs == 1..MaxReq

\* A client session before mongoose.startSession() resolved.
NoSession ==
    [obtained |-> FALSE, txn |-> "none", ended |-> FALSE,
     starts |-> 0, aborts |-> 0, commits |-> 0]

\* A slot no request occupies.
IdleReq ==
    [pc |-> "idle", body |-> Null, data |-> Null, session |-> NoSession,
     book |-> Null, stale |-> FALSE, pendingBook |-> Null,
     pendingBorrow |-> Null, error |-> Null, resp |-> Null]

Init ==
    /\ books = [b \in BookIds |-> Null]
    /\ borrows = <<>>
    /\ nextId = 1
    /\ now = 0
    /\ req = [r \in Reqs |-> IdleReq]
    /\ copiesAtCreation = [b \in BookIds |-> -1]

\* ------------------------------------------------- errors a handler catches

ZodError(issues) == [class |-> "ZodError", issues |-> issues]
\* A failure of the persistence layer: the network, the server, a conflict.
MongoError(label) == [class |-> "MongoServerError", label |-> label]
\* mongoose's own ValidationError, thrown by save() before anything is sent.
MongooseValidationError == [class |-> "ValidationError"]
\* The driver's refusal of abortTransaction after commitTransaction was called.
MongoTransactionError == [class |-> "MongoTransactionError"]
DuplicateKeyError(field, value) ==
    [class |-> "MongoServerError", code |-> 11000, field |-> field, value |-> value]

\* ------------------------------------------- the database's transactions

\* Request o's open transaction has written Book b and not yet ended.
HoldsWrite(rq, o, b) ==
    /\ rq[o].session.txn = "open"
    /\ rq[o].pendingBook # Null
    /\ rq[o].data.book = b

\* Some open transaction has written Book b: a write outside waits for it.
LockedByTransaction(b) == \E o \in Reqs : HoldsWrite(req, o, b)

\* A database that sees a conflict with the writes of open transactions
\* only, not with a write committed after the transaction's snapshot.
WriteConflictWithOpenOnly(r, b) == \E o \in Reqs \ {r} : HoldsWrite(req, o, b)

\* A database that detects no conflict: the last write wins.
WriteConflictUndetected(r, b) == FALSE

\* r's write to Book b conflicts: the document changed after r's snapshot, or
\* another open transaction has written it.
WriteConflict(r, b) ==
    \/ req[r].stale
    \/ \E o \in Reqs \ {r} : HoldsWrite(req, o, b)

\* A database whose transactions do not notice writes made after their
\* snapshot.
MarkStaleNever(rq, writer, b) == rq

\* A write to Book b became visible: every other transaction that read b
\* and has yet to write it now holds a stale snapshot.
MarkStale(rq, writer, b) ==
    [r \in Reqs |->
        IF /\ r # writer
           /\ rq[r].pc = "saveBook"
           /\ rq[r].data.book = b
        THEN [rq[r] EXCEPT !.stale = TRUE]
        ELSE rq[r]]

\* --------------------------------------------- session (mongoose / driver)

\* mongoose.startSession() resolved.
StartSession(s) == [s EXCEPT !.obtained = TRUE]

\* session.startTransaction()
StartTransaction(s) == [s EXCEPT !.txn = "open", !.starts = @ + 1]

\* An abortTransaction that is never sent.
AbortTransactionSkipped(s) == s

\* session.abortTransaction(): an open transaction is rolled back; one that
\* has ended stays as it is.
AbortTransaction(s) ==
    [s EXCEPT !.txn = IF @ = "open" THEN "aborted" ELSE @, !.aborts = @ + 1]

\* session.commitTransaction() is called.
CallCommit(s) == [s EXCEPT !.commits = @ + 1]
\* The commit took effect.
Committed(s) == [s EXCEPT !.txn = "committed"]
\* The commit failed: the server rolled the transaction back.
CommitFailed(s) == [s EXCEPT !.txn = "aborted"]

\* A handler without its finally block.
EndSessionSkipped(s) == s

\* finally { session.endSession() }
EndSession(s) == [s EXCEPT !.ended = TRUE]

\* --------------------------------------------------- borrowBook (controllers.ts)

\* Book.findById(id): the document, or null.
FindById(bks, id) == IF id \in BookIds THEN bks[id] ELSE Null

\* The availability check left out.
IsAvailableUnchecked(book) == TRUE

\* if (!book.available)
IsAvailable(book) == book.available

\* if (book.copies < quantity)
InsufficientCopies(book, quantity) == book.copies < quantity

\* The deduction without the update of available.
DeductCopiesKeepAvailable(book, quantity) ==
    [book EXCEPT !.copies = @ - quantity]

\* The deduction left out: the Book is saved as it was read.
DeductCopiesForgotten(book, quantity) == book

\* book.copies -= quantity; if (book.copies === 0) book.available = false
DeductCopies(book, quantity) ==
    LET left == book.copies - quantity
    IN  [book EXCEPT !.copies = left,
                     !.available = IF left = 0 THEN FALSE ELSE @]

\* A Borrow document that records one copy whatever the request asked for.
NewBorrowOfOne(data) ==
    [book |-> data.book, quantity |-> 1, dueDate |-> data.dueDate]

\* new Borrow({ book, quantity, dueDate: new Date(dueDate) })
NewBorrow(data) ==
    [book |-> data.book, quantity |-> data.quantity, dueDate |-> data.dueDate]

BookNotFound ==
    Respond(404, createGenericError(Msg("Book not found"), "NotFoundError"))

BorrowUnavailable(bookId) ==
    Respond(400,
        createValidationError(Msg("Validation failed"),
            createFieldError("book",
                Msg("Book is currently not available for borrowing"),
                "availability", bookId, NoProperties)))

\* The rejection reporting the requested quantity as what is available.
BorrowInsufficientReportsRequested(book, quantity) ==
    Respond(400,
        createValidationError(Msg("Validation failed"),
            createFieldError("quantity",
                <<"Insufficient copies available. Only ", book.copies,
                  " copies remaining">>,
                "insufficient_stock", quantity, [available |-> quantity])))

BorrowInsufficient(book, quantity) ==
    Respond(400,
        createValidationError(Msg("Validation failed"),
            createFieldError("quantity",
                <<"Insufficient copies available. Only ", book.copies,
                  " copies remaining">>,
                "insufficient_stock", quantity, [available |-> book.copies])))

BorrowCreated(saved) ==
    Respond(201, ApiResponse(Msg("Book borrowed successfully"), saved))

\* The outer catch: a ZodError becomes the validation envelope, anything
\* else the generic 500.
BorrowOuterCatch(error) ==
    IF error.class = "ZodError"
    THEN Respond(400, convertZodError(error.issues))
    ELSE Respond(500,
            createGenericError(
                Msg("Internal server error while processing borrow request"),
                DefaultErrorName))

\* The handler returns: its locals are gone, and what the transaction had
\* buffered is either applied or discarded by now.
Rollback(q) ==
    [q EXCEPT !.pendingBook = Null, !.pendingBorrow = Null,
              !.book = Null, !.stale = FALSE, !.body = Null, !.data = Null]

\* One of the three early returns: abortTransaction, respond, return; the
\* finally block ends the session.
RejectAndReturn(q, response) ==
    [Rollback(q) EXCEPT !.session = EndSession(AbortTransaction(@)),
                        !.resp = response,
                        !.pc = "done"]

\* An inner catch whose rethrown error no outer catch handles: the handler
\* ends without a response.
CatchAndEscape(q) ==
    [Rollback(q) EXCEPT !.session = EndSession(AbortTransaction(@)),
                        !.pc = "done"]

\* catch (transactionError) { await session.abortTransaction(); throw }
\* finally { session.endSession() }, then the outer catch.  After
\* commitTransaction was called the driver refuses the abort with an error
\* of its own, which is the one the outer catch sees.
CatchAndRethrow(q) ==
    LET thrown == IF q.session.commits > 0 THEN MongoTransactionError ELSE q.error
    IN  [Rollback(q) EXCEPT !.session = EndSession(AbortTransaction(@)),
                            !.error = thrown,
                            !.resp = BorrowOuterCatch(thrown),
                            !.pc = "done"]

\* The success path with the abort moved into the finally block.
RespondCreatedThenAbort(q, saved) ==
    [Rollback(q) EXCEPT !.session = EndSession(AbortTransaction(Committed(@))),
                        !.resp = BorrowCreated(saved),
                        !.pc = "done"]

\* The success path after the commit: respond 201; finally ends the session.
RespondCreated(q, saved) ==
    [Rollback(q) EXCEPT !.session = EndSession(Committed(@)),
                        !.resp = BorrowCreated(saved),
                        !.pc = "done"]

\* The request arrives (the slots fill in order): BorrowCreateSchema.parse(
\* req.body).  A ZodError goes straight to the outer catch; otherwise the
\* handler awaits startSession().
BorrowParse(r, body) ==
    /\ req[r].pc = "idle"
    /\ r > 1 => req[r - 1].pc # "idle"
    /\ LET issues == BorrowCreateSchemaIssues(body, now)
       IN  req' = [req EXCEPT ![r] =
                IF issues # <<>>
                THEN [IdleReq EXCEPT !.pc = "done", !.body = body,
                                     !.error = ZodError(issues),
                                     !.resp = BorrowOuterCatch(ZodError(issues))]
                ELSE [IdleReq EXCEPT !.pc = "startSession", !.body = body,
                                     !.data = BorrowCreateSchemaData(body)]]
    /\ UNCHANGED <<books, borrows, nextId, now, copiesAtCreation>>

\* startSession() resolves (or rejects, outside the inner try), the
\* transaction is started and findById is issued.
BorrowStartSession(r) ==
    /\ req[r].pc = "startSession"
    /\ \/ req' = [req EXCEPT ![r] =
                [@ EXCEPT !.session = StartTransaction(StartSession(@)),
                          !.pc = "findById"]]
       \/ req' = [req EXCEPT ![r] =
                [Rollback(@) EXCEPT !.error = MongoError("network"),
                                    !.resp = BorrowOuterCatch(MongoError("network")),
                                    !.pc = "done"]]
    /\ UNCHANGED <<books, borrows, nextId, now, copiesAtCreation>>

\* The checks with the stock tested before the availability.
AfterFindByIdStockFirst(book, quantity) ==
    CASE book = Null -> "abortNotFound"
      [] book # Null /\ InsufficientCopies(book, quantity) -> "abortStock"
      [] book # Null /\ ~InsufficientCopies(book, quantity) /\ ~IsAvailable(book) ->
            "abortUnavailable"
      [] OTHER -> "saveBook"

\* if (!book) ... if (!book.available) ... if (book.copies < quantity) ...:
\* the first check that fails decides the rejection; when none fails the
\* handler goes on to deduct and save.
AfterFindById(book, quantity) ==
    CASE book = Null -> "abortNotFound"
      [] book # Null /\ ~IsAvailable(book) -> "abortUnavailable"
      [] book # Null /\ IsAvailable(book) /\ InsufficientCopies(book, quantity) ->
            "abortStock"
      [] OTHER -> "saveBook"

\* Book.findById(bookId).session(session) resolves: the three checks run, and
\* either an abortTransaction or book.save is issued.
BorrowFindById(r) ==
    /\ req[r].pc = "findById"
    /\ \/ LET book == FindById(books, req[r].data.book)
              quantity == req[r].data.quantity
              next == AfterFindById(book, quantity)
          IN  req' = [req EXCEPT ![r] =
                CASE next = "abortNotFound" ->
                        [@ EXCEPT !.pc = next]
                  [] next = "saveBook" ->
                        [@ EXCEPT !.book = DeductCopies(book, quantity),
                                  !.pc = next]
                  [] OTHER ->
                        [@ EXCEPT !.book = book, !.pc = next]]
       \/ req' = [req EXCEPT ![r] =
                [@ EXCEPT !.error = MongoError("network"), !.pc = "abortCatch"]]
    /\ UNCHANGED <<books, borrows, nextId, now, copiesAtCreation>>

\* abortTransaction() of an early return resolves; the response is sent.
BorrowAbortReject(r) ==
    /\ req[r].pc \in {"abortNotFound", "abortUnavailable", "abortStock"}
    /\ req' = [req EXCEPT ![r] =
            RejectAndReturn(@,
                CASE @.pc = "abortNotFound" -> BookNotFound
                  [] @.pc = "abortUnavailable" -> BorrowUnavailable(@.data.book)
                  [] OTHER -> BorrowInsufficient(@.book, @.data.quantity))]
    /\ UNCHANGED <<books, borrows, nextId, now, copiesAtCreation>>

\* book.save({ session }) resolves or rejects (bookSchema's validators run
\* before anything is sent); on success the Borrow document is built and
\* validated and its save is issued.
BorrowSaveBook(r) ==
    /\ req[r].pc = "saveBook"
    /\ \/ /\ WriteConflict(r, req[r].data.book)
          /\ req' = [req EXCEPT ![r] =
                [@ EXCEPT !.error = MongoError("WriteConflict"),
                          !.pc = "abortCatch"]]
       \/ /\ ~WriteConflict(r, req[r].data.book)
          /\ req' = [req EXCEPT ![r] =
                [@ EXCEPT !.error = MongoError("network"), !.pc = "abortCatch"]]
       \/ /\ ~WriteConflict(r, req[r].data.book)
          /\ req' = [req EXCEPT ![r] =
                IF ~BookPathsValid(@.book)
                THEN [@ EXCEPT !.error = MongooseValidationError,
                               !.pc = "abortCatch"]
                ELSE IF BorrowDocValid(NewBorrow(@.data), now)
                THEN [@ EXCEPT !.pendingBook = req[r].book, !.pc = "saveBorrow"]
                ELSE [@ EXCEPT !.pendingBook = req[r].book,
                               !.error = MongooseValidationError,
                               !.pc = "abortCatch"]]
    /\ UNCHANGED <<books, borrows, nextId, now, copiesAtCreation>>

\* borrowRecord.save({ session }) resolves or rejects; on success
\* commitTransaction is called.
BorrowSaveBorrow(r) ==
    /\ req[r].pc = "saveBorrow"
    /\ \/ req' = [req EXCEPT ![r] =
                [@ EXCEPT !.pendingBorrow = NewBorrow(req[r].data),
                          !.session = CallCommit(@),
                          !.pc = "commit"]]
       \/ req' = [req EXCEPT ![r] =
                [@ EXCEPT !.error = MongoError("network"), !.pc = "abortCatch"]]
    /\ UNCHANGED <<books, borrows, nextId, now, copiesAtCreation>>

\* The Borrow document as stored: the collection assigns its place as _id.
StoredBorrow(brs, doc) == doc @@ [_id |-> Len(brs) + 1]

\* A commit that carries the Book write alone.
CommittedBorrowsWithoutRecord(brs, q) == brs

\* A commit that keeps one Borrow record per Book: a later borrow of the
\* same Book adds its quantity to the record already there.
CommittedBorrowsUpserted(brs, q) ==
    IF \E i \in 1..Len(brs) : brs[i].book = q.pendingBorrow.book
    THEN [i \in 1..Len(brs) |->
            IF brs[i].book = q.pendingBorrow.book
            THEN [brs[i] EXCEPT !.quantity = @ + q.pendingBorrow.quantity]
            ELSE brs[i]]
    ELSE Append(brs, StoredBorrow(brs, q.pendingBorrow))

\* What the commit makes visible: the Book as book.save({ session }) wrote it
\* and the Borrow document borrowRecord.save({ session }) inserted.
CommittedBooks(bks, q) == [bks EXCEPT ![q.data.book] = q.pendingBook]
CommittedBorrows(brs, q) == Append(brs, StoredBorrow(brs, q.pendingBorrow))

\* commitTransaction() resolves: both buffered writes become visible at once
\* and the 201 is sent; or it rejects, nothing is applied, and the inner
\* catch runs.
BorrowCommit(r) ==
    /\ req[r].pc = "commit"
    /\ \/ LET b == req[r].data.book
              saved == StoredBorrow(borrows, req[r].pendingBorrow)
          IN  /\ books' = CommittedBooks(books, req[r])
              /\ borrows' = CommittedBorrows(borrows, req[r])
              /\ req' = [MarkStale(req, r, b) EXCEPT ![r] = RespondCreated(@, saved)]
       \/ /\ req' = [req EXCEPT ![r] =
                CatchAndRethrow([@ EXCEPT !.session = CommitFailed(@),
                                          !.error = MongoError("network")])]
          /\ UNCHANGED <<books, borrows>>
    /\ UNCHANGED <<nextId, now, copiesAtCreation>>

\* abortTransaction() of the inner catch resolves; the error is rethrown, the
\* session ended and the outer catch responds.
BorrowAbortCatch(r) ==
    /\ req[r].pc = "abortCatch"
    /\ req' = [req EXCEPT ![r] = CatchAndRethrow(@)]
    /\ UNCHANGED <<books, borrows, nextId, now, copiesAtCreation>>

\* The wall clock advances.
Tick ==
    /\ now < MaxTime
    /\ now' = now + 1
    /\ UNCHANGED <<books, borrows, nextId, req, copiesAtCreation>>

\* ----------------------------------- createBook / updateBook / deleteBook
\* Each of these handlers makes one persistence call.  What it answers and
\* what it leaves in the collection are functions of the collection at that
\* call and of the request; the action applies them.

\* A document as a response carries it: with its id.
WithId(id, doc) == doc @@ [_id |-> id]

\* A collection without the unique index.
IsbnTakenUnindexed(bks, isbn, except) == FALSE

\* The unique index on isbn: another Book already holds this isbn.
IsbnTaken(bks, isbn, except) ==
    \E b \in BookIds \ {except} : bks[b] # Null /\ bks[b].isbn = isbn

\* if (error.code === 11000): the field of keyPattern and its rejected value.
DuplicateKeyResponse(error) ==
    Respond(400,
        createValidationError(Msg("Validation failed"),
            createFieldError(error.field, <<error.field, " already exists">>,
                "unique", error.value, NoProperties)))

\* if (!mongoose.Types.ObjectId.isValid(bookId))
InvalidBookIdResponse(bookId) ==
    Respond(400,
        createValidationError(Msg("Validation failed"),
            createFieldError("bookId", Msg("Invalid book ID format"), "format",
                bookId, NoProperties)))

\* The catch of createBook and updateBook.
BookCatch(error, message) ==
    CASE error.class = "ZodError" -> Respond(400, convertZodError(error.issues))
      [] error.class = "MongoServerError" /\ Has(error, "code") /\ error.code = 11000 ->
            DuplicateKeyResponse(error)
      [] OTHER -> Respond(500, createGenericError(Msg(message), DefaultErrorName))

\* The document Book.create builds from a parsed body.
NewBook(body) == BookDefaults(BookSchemaData(body))

\* What createBook throws: the ZodError of parse, or what Book.create
\* rejects with; Null when the document is inserted.
CreateBookError(bks, body, dbFails) ==
    LET issues == BookCreateSchemaIssues(body)
    IN  CASE issues # <<>> -> ZodError(issues)
          [] issues = <<>> /\ ~BookPathsValid(NewBook(body)) -> MongooseValidationError
          [] issues = <<>> /\ BookPathsValid(NewBook(body)) /\ dbFails ->
                MongoError("network")
          [] issues = <<>> /\ BookPathsValid(NewBook(body)) /\ ~dbFails
                /\ IsbnTaken(bks, NewBook(body).isbn, 0) ->
                DuplicateKeyError("isbn", NewBook(body).isbn)
          [] OTHER -> Null

\* The collection after createBook, id being the id the database hands out.
CreateBookBooks(bks, id, body, dbFails) ==
    IF CreateBookError(bks, body, dbFails) = Null
    THEN [bks EXCEPT ![id] = NewBook(body)]
    ELSE bks

\* The response of createBook.
CreateBookResponse(bks, id, body, dbFails) ==
    LET error == CreateBookError(bks, body, dbFails)
    IN  IF error = Null
        THEN Respond(201, ApiResponse(Msg("Book created successfully"),
                                      WithId(id, NewBook(body))))
        ELSE BookCatch(error, "Internal server error while creating book")

CreateBook(body, dbFails) ==
    /\ nextId \in BookIds
    /\ books' = CreateBookBooks(books, nextId, body, dbFails)
    /\ IF books' # books
       THEN /\ nextId' = nextId + 1
            /\ copiesAtCreation' =
                    [copiesAtCreation EXCEPT ![nextId] = NewBook(body).copies]
       ELSE UNCHANGED <<nextId, copiesAtCreation>>
    /\ UNCHANGED <<borrows, now, req>>

\* An update that fills in the schema's defaults for the paths left out.
ApplyUpdateWithDefaults(doc, data) == BookDefaults(data) @@ doc

\* $set of the supplied paths: every other path keeps its value.
ApplyUpdate(doc, data) == data @@ doc

\* What updateBook throws after the id check: the ZodError of parse, or what
\* findByIdAndUpdate(bookId, validatedData, { new, runValidators }) rejects
\* with (the update validators run on the supplied paths before the command
\* is sent); Null when the call resolves.
UpdateBookError(bks, bookId, body, dbFails) ==
    LET issues == BookUpdateSchemaIssues(body)
        data == BookSchemaData(body)
    IN  CASE issues # <<>> -> ZodError(issues)
          [] issues = <<>> /\ ~BookPathsValid(data) -> MongooseValidationError
          [] issues = <<>> /\ BookPathsValid(data) /\ dbFails -> MongoError("network")
          [] issues = <<>> /\ BookPathsValid(data) /\ ~dbFails
                /\ FindById(bks, bookId) # Null
                /\ Has(data, "isbn") /\ IsbnTaken(bks, data.isbn, bookId) ->
                DuplicateKeyError("isbn", data.isbn)
          [] OTHER -> Null

\* updateBook writes: the id is well-formed, nothing is thrown and the Book
\* is there.
UpdateBookWrites(bks, bookId, body, dbFails) ==
    /\ ObjectIdIsValid(bookId)
    /\ UpdateBookError(bks, bookId, body, dbFails) = Null
    /\ FindById(bks, bookId) # Null

\* The collection after updateBook.
UpdateBookBooks(bks, bookId, body, dbFails) ==
    IF UpdateBookWrites(bks, bookId, body, dbFails)
    THEN [bks EXCEPT ![bookId] = ApplyUpdate(@, BookSchemaData(body))]
    ELSE bks

\* The response of updateBook.
UpdateBookResponse(bks, bookId, body, dbFails) ==
    LET error == UpdateBookError(bks, bookId, body, dbFails)
    IN  CASE ~ObjectIdIsValid(bookId) -> InvalidBookIdResponse(bookId)
          [] ObjectIdIsValid(bookId) /\ error # Null ->
                BookCatch(error, "Internal server error while updating book")
          [] ObjectIdIsValid(bookId) /\ error = Null /\ FindById(bks, bookId) = Null ->
                BookNotFound
          [] OTHER ->
                Respond(200, ApiResponse(Msg("Book updated successfully"),
                    WithId(bookId, UpdateBookBooks(bks, bookId, body, dbFails)[bookId])))

\* The write waits while an open transaction has written the Book.
UpdateBook(bookId, body, dbFails) ==
    /\ bookId \in BookIds => ~LockedByTransaction(bookId)
    /\ books' = UpdateBookBooks(books, bookId, body, dbFails)
    /\ req' = IF UpdateBookWrites(books, bookId, body, dbFails)
              THEN MarkStale(req, 0, bookId)
              ELSE req
    /\ UNCHANGED <<borrows, nextId, now, copiesAtCreation>>

\* deleteBook removes a Book: the id is well-formed, findByIdAndDelete does
\* not fail and finds it.
DeleteBookWrites(bks, bookId, dbFails) ==
    ObjectIdIsValid(bookId) /\ ~dbFails /\ FindById(bks, bookId) # Null

\* The collection after deleteBook.
DeleteBookBooks(bks, bookId, dbFails) ==
    IF DeleteBookWrites(bks, bookId, dbFails)
    THEN [bks EXCEPT ![bookId] = Null]
    ELSE bks

\* deleteBook without the test of what findByIdAndDelete found.
DeleteBookResponseUnchecked(bks, bookId, dbFails) ==
    CASE ~ObjectIdIsValid(bookId) -> InvalidBookIdResponse(bookId)
      [] ObjectIdIsValid(bookId) /\ dbFails ->
            Respond(500, createGenericError(
                Msg("Internal server error while deleting book"), DefaultErrorName))
      [] OTHER -> Respond(200, ApiResponse(Msg("Book deleted successfully"), Null))

\* The response of deleteBook.
DeleteBookResponse(bks, bookId, dbFails) ==
    CASE ~ObjectIdIsValid(bookId) -> InvalidBookIdResponse(bookId)
      [] ObjectIdIsValid(bookId) /\ dbFails ->
            Respond(500, createGenericError(
                Msg("Internal server error while deleting book"), DefaultErrorName))
      [] ObjectIdIsValid(bookId) /\ ~dbFails /\ FindById(bks, bookId) = Null ->
            BookNotFound
      [] OTHER -> Respond(200, ApiResponse(Msg("Book deleted successfully"), Null))

DeleteBook(bookId, dbFails) ==
    /\ bookId \in BookIds => ~LockedByTransaction(bookId)
    /\ books' = DeleteBookBooks(books, bookId, dbFails)
    /\ req' = IF DeleteBookWrites(books, bookId, dbFails)
              THEN MarkStale(req, 0, bookId)
              ELSE req
    /\ UNCHANGED <<borrows, nextId, now, copiesAtCreation>>

\* ------------------------------------------------------------ getBooksById

\* The response of getBooksById: the id check, findById, the 404 and the 200.
GetBooksByIdResponse(bks, bookId, dbFails) ==
    CASE ~ObjectIdIsValid(bookId) -> InvalidBookIdResponse(bookId)
      [] ObjectIdIsValid(bookId) /\ dbFails ->
            Respond(500, createGenericError(
                Msg("Internal server error while retrieving book"), DefaultErrorName))
      [] ObjectIdIsValid(bookId) /\ ~dbFails /\ FindById(bks, bookId) = Null ->
            BookNotFound
      [] OTHER ->
            Respond(200, ApiResponse(Msg("Book retrieved successfully"),
                                     WithId(bookId, FindById(bks, bookId))))

\* ------------------------------------------------------------- getAllBooks

IsDigit(c) == c \in {"0", "1", "2", "3", "4", "5", "6", "7", "8", "9"}

DigitValue(c) ==
    CASE c = "0" -> 0 [] c = "1" -> 1 [] c = "2" -> 2 [] c = "3" -> 3
      [] c = "4" -> 4 [] c = "5" -> 5 [] c = "6" -> 6 [] c = "7" -> 7
      [] c = "8" -> 8 [] c = "9" -> 9

RECURSIVE DecimalValue(_)
DecimalValue(digits) ==
    IF digits = <<>> THEN 0
    ELSE 10 * DecimalValue(SubSeq(digits, 1, Len(digits) - 1))
            + DigitValue(digits[Len(digits)])

NaN == [nan |-> TRUE]

\* Number(text) for a query-string value: blanks are trimmed, the empty
\* text is 0, an optional sign and decimal digits are that integer, and
\* every other text here is NaN.
NumberOf(text) ==
    LET t == Trim(text)
        unsigned == IF t # <<>> /\ t[1] \in {"-", "+"} THEN Tail(t) ELSE t
    IN  CASE t = <<>> -> [nan |-> FALSE, value |-> 0]
          [] t # <<>> /\ unsigned # <<>>
                /\ \A i \in DOMAIN unsigned : IsDigit(unsigned[i]) ->
                [nan |-> FALSE,
                 value |-> IF t[1] = "-" THEN 0 - DecimalValue(unsigned)
                           ELSE DecimalValue(unsigned)]
          [] OTHER -> NaN

\* The destructuring defaults of getAllBooks: they apply to a parameter
\* that is absent, not to one that is empty.
QueryParam(query, key, default) == IF Has(query, key) THEN query[key] ELSE default

\* if (filter) query.genre = filter: the Books find(query) matches.
MatchesQuery(bks, query) ==
    {b \in BookIds :
        /\ bks[b] # Null
        /\ (Has(query, "filter") /\ query.filter # "") => bks[b].genre = query.filter}

\* The value sort() compares for a Book: createdAt grows with the order of
\* creation, copies is the stored number, and a path no Book has compares
\* equal for all.
SortValue(bks, b, sortBy) ==
    CASE sortBy = "createdAt" -> b
      [] sortBy = "copies" -> bks[b].copies
      [] OTHER -> 0

\* sort === 'desc' ? -1 : 1
SortOrder(query) == IF QueryParam(query, "sort", "asc") = "desc" THEN -1 ELSE 1

\* .sort({ [sortBy]: sortOrder }): the orders of the matched Books the
\* cursor can deliver; Books that compare equal come in any order.
SortedBooks(bks, query) ==
    LET matched == MatchesQuery(bks, query)
        sortBy == QueryParam(query, "sortBy", "createdAt")
    IN  {o \in [1..Cardinality(matched) -> matched] :
            /\ \A i, j \in DOMAIN o : i # j => o[i] # o[j]
            /\ \A i, j \in DOMAIN o :
                    i < j => SortOrder(query) * SortValue(bks, o[i], sortBy)
                                <= SortOrder(query) * SortValue(bks, o[j], sortBy)}

\* .limit(n) of the cursor: a positive n caps the result, 0 is no limit and
\* a negative n caps it at -n.
LimitTo(order, n) ==
    CASE n = 0 -> order
      [] n > 0 -> SubSeq(order, 1, IF n < Len(order) THEN n ELSE Len(order))
      [] OTHER -> SubSeq(order, 1, IF 0 - n < Len(order) THEN 0 - n ELSE Len(order))

\* The responses getAllBooks can send.  A limit of NaN is either refused
\* by the find command, which raises, or taken for no limit.
GetAllBooksResponses(bks, query, dbFails) ==
    LET limit == NumberOf(QueryParam(query, "limit", <<"1", "0">>))
        ok(order) ==
            Respond(200, ApiResponse(Msg("Books retrieved successfully"),
                        [i \in DOMAIN order |-> WithId(order[i], bks[order[i]])]))
        failed ==
            Respond(500, createGenericError(
                Msg("Internal server error while retrieving books"), DefaultErrorName))
    IN  CASE dbFails -> {failed}
          [] ~dbFails /\ limit.nan ->
                {failed} \cup {ok(order) : order \in SortedBooks(bks, query)}
          [] OTHER ->
                {ok(LimitTo(order, limit.value)) : order \in SortedBooks(bks, query)}

\* ------------------------------------------------------- borrowBookSummary

\* totalQuantity: { $sum: '$quantity' } over the records whose book is b.
RECURSIVE SumQuantity(_, _)
SumQuantity(brs, b) ==
    IF brs = <<>> THEN 0
    ELSE (IF Head(brs).book = b THEN Head(brs).quantity ELSE 0)
            + SumQuantity(Tail(brs), b)

\* $group by '$book': one group per book id the records carry.
GroupByBook(brs) ==
    [b \in {brs[i].book : i \in DOMAIN brs} |->
        [_id |-> b, totalQuantity |-> SumQuantity(brs, b)]]

\* A $unwind with preserveNullAndEmptyArrays: no group is dropped.
UnwindPreservingEmpty(bks, groups) == DOMAIN groups

\* $lookup from 'books' on _id, then $unwind '$bookDetails': bookDetails of
\* a group whose Book is not in the collection is empty, and $unwind emits
\* nothing for it.
LookupAndUnwind(bks, groups) ==
    {b \in DOMAIN groups : FindById(bks, b) # Null}

\* With $unwind preserving a group without bookDetails, $project finds no
\* title and no isbn and leaves book empty.
ProjectSummary(bks, group) ==
    [book |-> IF FindById(bks, group._id) = Null THEN <<>>
              ELSE [title |-> bks[group._id].title, isbn |-> bks[group._id].isbn],
     totalQuantity |-> group.totalQuantity]

\* A pipeline without the $sort stage: the entries in any order.
Unsorted(entries) == TRUE

\* $sort: { totalQuantity: -1 }; entries with equal totals come in any order.
SortedByTotalQuantity(entries) ==
    \A i \in 1..(Len(entries) - 1) :
        entries[i].totalQuantity >= entries[i + 1].totalQuantity

\* What Borrow.aggregate can resolve with: the groups that passed $unwind,
\* projected, in an order $sort allows.
BorrowedBooksSummaries(bks, brs) ==
    LET groups == GroupByBook(brs)
        kept == LookupAndUnwind(bks, groups)
        orders == {o \in [1..Cardinality(kept) -> kept] :
                        \A i, j \in DOMAIN o : i # j => o[i] # o[j]}
        results == {[i \in DOMAIN o |-> ProjectSummary(bks, groups[o[i]])] :
                        o \in orders}
    IN  {entries \in results : SortedByTotalQuantity(entries)}

\* The names of what Borrow.aggregate rejects with; "none" when it resolves.
AggregateFailures == {"none", "MongoServerError", "MongoNetworkError"}

\* The responses borrowBookSummary can send.
BorrowBookSummaryResponses(bks, brs, failure) ==
    CASE failure = "none" ->
            {Respond(200,
                ApiResponse(Msg("Borrowed books summary retrieved successfully"),
                            entries)) :
                entries \in BorrowedBooksSummaries(bks, brs)}
      [] failure \in {"MongoError", "MongoServerError"} ->
            {Respond(500, createGenericError(Msg("Database aggregation error"),
                                             "DatabaseError"))}
      [] OTHER ->
            {Respond(500, createGenericError(
                Msg("Internal server error while retrieving borrowed books summary"),
                DefaultErrorName))}

\* --------------------------------------- app (app.ts), router (bookRoutes.ts)

\* A request as the application sees it: the method, the path as the
\* sequence of its segments, and whether it carries a JSON body that does
\* not parse.  A segment in the place of :bookId is the id string.
HttpMethods == {"GET", "HEAD", "POST", "PUT", "DELETE", "PATCH", "OPTIONS"}

\* router.METHOD(path, handler), in the order of registration.
RouterStack ==
    << [method |-> "POST", path |-> <<"books">>, handler |-> "createBook"],
       [method |-> "GET", path |-> <<"books">>, handler |-> "getAllBooks"],
       [method |-> "GET", path |-> <<"books", ":bookId">>, handler |-> "getBooksById"],
       [method |-> "PUT", path |-> <<"books", ":bookId">>, handler |-> "updateBook"],
       [method |-> "DELETE", path |-> <<"books", ":bookId">>, handler |-> "deleteBook"],
       [method |-> "POST", path |-> <<"borrow">>, handler |-> "borrowBook"],
       [method |-> "GET", path |-> <<"borrow">>, handler |-> "borrowBookSummary"] >>

\* The match of a route's path: a literal segment matches itself, a
\* parameter any one segment.
MatchLayer(routePath, path) ==
    /\ Len(routePath) = Len(path)
    /\ \A i \in DOMAIN routePath :
            routePath[i] = ":bookId" \/ routePath[i] = path[i]

\* A route registered for GET also answers HEAD.
HandlesMethod(route, method) ==
    \/ route.method = method
    \/ method = "HEAD" /\ route.method = "GET"

\* The router walks its stack: the first route whose path and method match
\* handles the request; "next" when none does.
RECURSIVE RouterHandle(_, _, _)
RouterHandle(stack, method, path) ==
    IF stack = <<>> THEN "next"
    ELSE IF MatchLayer(Head(stack).path, path) /\ HandlesMethod(Head(stack), method)
    THEN Head(stack).handler
    ELSE RouterHandle(Tail(stack), method, path)

\* The methods of the routes whose path matches: what the router offers in
\* Allow when an OPTIONS request falls through its stack.
RouterOptions(stack, path) ==
    {stack[i].method : i \in {j \in DOMAIN stack : MatchLayer(stack[j].path, path)}}

\* The router mounted at /api: a route, the automatic answer to OPTIONS, or
\* "next".
BookRouter(method, path) ==
    LET handler == RouterHandle(RouterStack, method, path)
    IN  CASE handler # "next" -> handler
          [] handler = "next" /\ method = "OPTIONS"
                /\ RouterOptions(RouterStack, path) # {} -> "options"
          [] OTHER -> "next"

\* The application's stack: express.json(), which passes a body that does
\* not parse to the error handler; app.get('/'); the router under /api; the
\* unknown route handler, which every request that comes this far reaches.
AppDispatch(request) ==
    CASE request.malformedJson -> "jsonError"
      [] ~request.malformedJson /\ request.path = <<>>
            /\ request.method \in {"GET", "HEAD"} -> "root"
      [] ~request.malformedJson /\ request.path # <<>>
            /\ Head(request.path) = "api"
            /\ BookRouter(request.method, Tail(request.path)) # "next" ->
            BookRouter(request.method, Tail(request.path))
      [] OTHER -> "notFound"

\* The answer of an application without a handler for unknown routes: the
\* framework's own 404 page.
FinalHandlerNotFound == Respond(404, [html |-> Msg("Cannot find the route")])

\* app.use((req, res) => res.status(404).json(createGenericError(...)))
UnknownRouteHandler ==
    Respond(404, createGenericError(Msg("Route not found"), "NotFoundError"))

\* ------------------------------------------------------- what clients send

\* Book ids a client names: every id the database can hand out, one
\* well-formed id that names no Book, and a malformed one.
KnownIdStrings == 1..(MaxBooks + 1)
IdStrings == KnownIdStrings \cup {MalformedIdString}

BaseBook == [title |-> Str("A"), author |-> Str("B"), genre |-> "FICTION"]

CopiesSent == {Num(-1), Frac(0)} \cup {Num(n) : n \in 0..MaxCopies}

\* One ISBN per Book the database can hold; with more than one Book a
\* second create can repeat the first one's.
IsbnsSent == {Str("1")} \cup (IF MaxBooks > 1 THEN {Str("2")} ELSE {})

CreateBodies ==
    {BaseBook @@ [isbn |-> i, copies |-> c] : i \in IsbnsSent, c \in CopiesSent}
    \cup
    {BaseBook @@ [isbn |-> i, copies |-> Num(MaxCopies), available |-> FALSE] :
        i \in IsbnsSent}

UpdateBodies ==
    {[copies |-> c] : c \in {Num(-1), Num(0), Num(MaxCopies)}}
    \cup {[available |-> a] : a \in BOOLEAN}

\* Valid borrow bodies: every id and quantity with a due date that stays in
\* the future, and one whose due date the clock can overtake.
ValidBorrowBodies ==
    {[book |-> b, quantity |-> Num(q), dueDate |-> MaxTime + 1] :
        b \in KnownIdStrings, q \in 1..MaxCopies}
    \cup {[book |-> 1, quantity |-> Num(1), dueDate |-> MaxTime]}

\* Bodies BorrowCreateSchema rejects, one rule at a time and two at once.
InvalidBorrowBodies ==
    {[book |-> b, quantity |-> Num(1), dueDate |-> MaxTime + 1] :
        b \in {MalformedIdString, EmptyIdString}}
    \cup
    {[book |-> 1, quantity |-> q, dueDate |-> MaxTime + 1] :
        q \in {Num(0), Frac(0), Frac(1)}}
    \cup
    {[book |-> 1, quantity |-> Num(1), dueDate |-> d] : d \in {0, NotIsoString}}
    \cup
    {[book |-> 1, quantity |-> Num(1)]}

BorrowBodies == ValidBorrowBodies \cup InvalidBorrowBodies

\* Texts with blanks around them, as a client may send them.
Padded(text) == <<" ">> \o text \o <<" ">>

\* What the catalogue's clients send to createBook: every combination of two
\* ISBNs (one of them also padded), stock or none, a description or none and
\* available given or left out; a padded title; a blank title; an ISBN that
\* is none.
CatalogueCreateBodies ==
    {BaseBook @@ [isbn |-> i, copies |-> Num(c)] @@ d @@ a :
        i \in {Str("1"), Str("2"), Padded(Str("1"))},
        c \in {0, 1},
        d \in {<<>>, [description |-> Padded(Str("d"))]},
        a \in {<<>>, [available |-> FALSE]}}
    \cup
    {[title |-> t, author |-> Str("B"), genre |-> "FICTION", isbn |-> Str("2"),
      copies |-> Num(1)] : t \in {Padded(Str("A")), Str(" ")}}
    \cup
    {BaseBook @@ [isbn |-> Str("x"), copies |-> Num(1)]}

\* Bodies of updateBook that carry description alone.
DescriptionBodies == {[description |-> t] : t \in {Str("e"), Padded(Str("e"))}}

\* What the catalogue's clients send to updateBook.
CatalogueUpdateBodies ==
    DescriptionBodies
    \cup {[isbn |-> i] : i \in {Str("1"), Str("2"), Padded(Str("2"))}}
    \cup {[copies |-> Num(0)], [copies |-> Num(-1)], [available |-> TRUE],
          [title |-> Str("T"), description |-> Str("e")]}

\* ---------------------------------------------------------- specifications

\* The steps of the borrowBook requests; they interleave at every await.
Borrowing ==
    \/ \E r \in Reqs, body \in BorrowBodies : BorrowParse(r, body)
    \/ \E r \in Reqs : BorrowStartSession(r)
    \/ \E r \in Reqs : BorrowFindById(r)
    \/ \E r \in Reqs : BorrowAbortReject(r)
    \/ \E r \in Reqs : BorrowSaveBook(r)
    \/ \E r \in Reqs : BorrowSaveBorrow(r)
    \/ \E r \in Reqs : BorrowCommit(r)
    \/ \E r \in Reqs : BorrowAbortCatch(r)

Creating ==
    \E body \in CreateBodies, dbFails \in BOOLEAN :
        nextId <= MaxBooks /\ CreateBook(body, dbFails)

Updating ==
    \E bookId \in IdStrings, body \in UpdateBodies, dbFails \in BOOLEAN :
        UpdateBook(bookId, body, dbFails)

Deleting == \E bookId \in IdStrings, dbFails \in BOOLEAN : DeleteBook(bookId, dbFails)

\* The same steps with one borrowBook request in flight at a time.
BorrowingInTurn ==
    \/ \E r \in Reqs, body \in BorrowBodies :
            /\ \A o \in Reqs : req[o].pc \in {"idle", "done"}
            /\ BorrowParse(r, body)
    \/ \E r \in Reqs : BorrowStartSession(r)
    \/ \E r \in Reqs : BorrowFindById(r)
    \/ \E r \in Reqs : BorrowAbortReject(r)
    \/ \E r \in Reqs : BorrowSaveBook(r)
    \/ \E r \in Reqs : BorrowSaveBorrow(r)
    \/ \E r \in Reqs : BorrowCommit(r)
    \/ \E r \in Reqs : BorrowAbortCatch(r)

\* Every handler that writes, interleaved.
Next == BorrowingInTurn \/ Creating \/ Updating \/ Deleting \/ Tick

Spec == Init /\ [][Next]_vars

\* The catalogue on its own: Books are created, updated and deleted, none is
\* borrowed.
CatalogueCreating ==
    \E body \in CatalogueCreateBodies, dbFails \in BOOLEAN : CreateBook(body, dbFails)

CatalogueUpdating ==
    \E bookId \in IdStrings, body \in CatalogueUpdateBodies, dbFails \in BOOLEAN :
        UpdateBook(bookId, body, dbFails)

NextCatalogue == CatalogueCreating \/ CatalogueUpdating \/ Deleting

SpecCatalogue == Init /\ [][NextCatalogue]_vars

\* Books are created and borrowed, never updated or deleted.
NextBorrowOnly == Borrowing \/ Creating \/ Tick

SpecBorrowOnly == Init /\ [][NextBorrowOnly]_vars

\* The continuation of request r that runs when the call it awaits settles.
BorrowStep(r) ==
    \/ BorrowStartSession(r)
    \/ BorrowFindById(r)
    \/ BorrowAbortReject(r)
    \/ BorrowSaveBook(r)
    \/ BorrowSaveBorrow(r)
    \/ BorrowCommit(r)
    \/ BorrowAbortCatch(r)

\* Every call a handler awaits settles, and the event loop then runs the
\* handler's continuation.
SpecBorrowOnlyFair ==
    SpecBorrowOnly /\ \A r \in Reqs : WF_vars(BorrowStep(r))

\* Two Books are created with stock, borrowed one request at a time and
\* deleted: the collections borrowBookSummary reads.
SummaryCreateBodies ==
    {BaseBook @@ [isbn |-> i, copies |-> Num(MaxCopies)] : i \in {Str("1"), Str("2")}}

SummaryBorrowBodies ==
    {[book |-> b, quantity |-> Num(q), dueDate |-> MaxTime + 1] :
        b \in BookIds, q \in 1..MaxCopies}

SummaryCreating == \E body \in SummaryCreateBodies : CreateBook(body, FALSE)

SummaryBorrowing ==
    \/ \E r \in Reqs, body \in SummaryBorrowBodies :
            /\ \A o \in Reqs : req[o].pc \in {"idle", "done"}
            /\ BorrowParse(r, body)
    \/ \E r \in Reqs : BorrowStartSession(r)
    \/ \E r \in Reqs : BorrowFindById(r)
    \/ \E r \in Reqs : BorrowAbortReject(r)
    \/ \E r \in Reqs : BorrowSaveBook(r)
    \/ \E r \in Reqs : BorrowSaveBorrow(r)
    \/ \E r \in Reqs : BorrowCommit(r)
    \/ \E r \in Reqs : BorrowAbortCatch(r)

SummaryDeleting == \E bookId \in BookIds : DeleteBook(bookId, FALSE)

NextSummary == SummaryCreating \/ SummaryBorrowing \/ SummaryDeleting

SpecSummary == Init /\ [][NextSummary]_vars

\* What clients send to getAllBooks: each parameter absent or present, the
\* limit as a numeral, empty, negative or no number.
ListQueries ==
    {f @@ k @@ d @@ l :
        f \in {<<>>, [filter |-> "FICTION"], [filter |-> "SCIENCE"], [filter |-> ""]},
        k \in {<<>>, [sortBy |-> "copies"], [sortBy |-> "pages"]},
        d \in {<<>>, [sort |-> "desc"], [sort |-> "asc"]},
        l \in {<<>>} \cup {[limit |-> t] : t \in {Str("1"), Str("2"), Str("0"),
                                <<"-", "1">>, <<>>, Str("x")}}}

\* Two Books of either genre with any stock are created, restocked and
\* deleted: the collection getAllBooks reads.
ListingCreateBodies ==
    {[title |-> Str("A"), author |-> Str("B"), genre |-> g, isbn |-> i,
      copies |-> Num(c)] :
        g \in {"FICTION", "SCIENCE"}, i \in {Str("1"), Str("2")}, c \in 0..MaxCopies}

ListingCreating == \E body \in ListingCreateBodies : CreateBook(body, FALSE)

ListingUpdating ==
    \E bookId \in BookIds, c \in 0..MaxCopies :
        UpdateBook(bookId, [copies |-> Num(c)], FALSE)

ListingDeleting == \E bookId \in BookIds : DeleteBook(bookId, FALSE)

NextListing == ListingCreating \/ ListingUpdating \/ ListingDeleting

SpecListing == Init /\ [][NextListing]_vars

\* The requests clients send to the application: every method on the
\* routed paths, on paths next to them and on paths that are not routed.
\* In the place of :bookId they send the ids of the Books stored, as text,
\* and a text that is no id.
HttpPaths(bks) ==
    {<<>>, <<"api">>, <<"api", "books">>, <<"api", "borrow">>, <<"books">>, <<"x">>}
    \cup {<<"api", "books", id>> :
            id \in {"x"} \cup {ToString(b) : b \in {c \in BookIds : bks[c] # Null}}}
    \cup {<<"api", "books", "x", "x">>, <<"api", "borrow", "x">>}

HttpRequests(bks) ==
    [method : HttpMethods, path : HttpPaths(bks), malformedJson : BOOLEAN]

\* ------------------------------------------------------------------ claims

\* The quantities of the committed Borrow records of Book b, summed.
RECURSIVE SumBorrowed(_, _)
SumBorrowed(brs, b) ==
    IF brs = <<>> THEN 0
    ELSE (IF Head(brs).book = b THEN Head(brs).quantity ELSE 0)
            + SumBorrowed(Tail(brs), b)

\* Request r finishes in this step.
Finishes(r) == req[r].pc # "done" /\ req'[r].pc = "done"

\* Request r takes this step.
Steps(r) == req[r].pc # req'[r].pc

\* C1: with no updateBook or deleteBook, the quantities of the committed
\* Borrow records of a Book never sum to more than the copies the Book was
\* created with.
C1_BorrowedWithinCreatedCopies ==
    \A b \in BookIds :
        SumBorrowed(borrows, b) <= (IF copiesAtCreation[b] < 0 THEN 0
                                    ELSE copiesAtCreation[b])

\* Two borrows have taken every copy a Book was created with.
C1_Witness ==
    \E b \in BookIds :
        /\ Len(borrows) >= 2
        /\ copiesAtCreation[b] = MaxCopies
        /\ SumBorrowed(borrows, b) = MaxCopies

\* C2: the commit of a successful borrowBook (201) leaves the Book with
\* available false exactly when no copies remain.
C2_AvailableIffCopiesRemain ==
    [][\A r \in Reqs :
            (Finishes(r) /\ req'[r].resp.status = 201) =>
                LET book == books'[req[r].data.book]
                IN  (book.available = FALSE) <=> (book.copies = 0)]_vars

\* A borrow answered 201 took the last copies; another left some.
C2_Witness ==
    /\ \E r \in Reqs : req[r].pc = "done" /\ req[r].resp.status = 201
    /\ \E b \in BookIds :
        books[b] # Null /\ books[b].copies = 0 /\ ~books[b].available
            /\ SumBorrowed(borrows, b) > 0

\* C3: no persisted Book has copies 0 together with available true.
C3_NoAvailableBookWithoutCopies ==
    \A b \in BookIds :
        books[b] # Null => ~(books[b].copies = 0 /\ books[b].available)

\* C4: every persisted Book, and every Book a transaction has written, has
\* copies >= 0; createBook and updateBook answer a negative copies value
\* with 400 and leave the collection as it was.
C4_CopiesNeverNegative ==
    /\ \A b \in BookIds : books[b] # Null => books[b].copies >= 0
    /\ \A r \in Reqs : req[r].pendingBook # Null => req[r].pendingBook.copies >= 0
    /\ \A dbFails \in BOOLEAN :
        /\ \A body \in CreateBodies :
                body.copies < Num(0) =>
                    /\ CreateBookResponse(books, nextId, body, dbFails).status = 400
                    /\ CreateBookBooks(books, nextId, body, dbFails) = books
        /\ \A bookId \in IdStrings, body \in UpdateBodies :
                (Has(body, "copies") /\ body.copies < Num(0)) =>
                    /\ UpdateBookResponse(books, bookId, body, dbFails).status = 400
                    /\ UpdateBookBooks(books, bookId, body, dbFails) = books

\* A borrow took a Book's last copy, and an update has written a Book.
C4_Witness ==
    \E b \in BookIds :
        /\ books[b] # Null /\ books[b].copies = 0
        /\ SumBorrowed(borrows, b) > 0
        /\ books[b].copies + SumBorrowed(borrows, b) # copiesAtCreation[b]

\* C5: a borrowBook request that ends with 201 has decremented the Book's
\* copies by its quantity and added exactly one Borrow record, its own; a
\* step of a request that ends otherwise, or does not end the request,
\* changes neither collection.
C5_BorrowAllOrNothing ==
    [][\A r \in Reqs :
            Steps(r) =>
                IF Finishes(r) /\ req'[r].resp.status = 201
                THEN LET b == req[r].data.book
                     IN  /\ books'[b].copies = books[b].copies - req[r].data.quantity
                         /\ \A o \in BookIds \ {b} : books'[o] = books[o]
                         /\ Len(borrows') = Len(borrows) + 1
                         /\ SubSeq(borrows', 1, Len(borrows)) = borrows
                         /\ borrows'[Len(borrows')].book = b
                         /\ borrows'[Len(borrows')].quantity = req[r].data.quantity
                ELSE books' = books /\ borrows' = borrows]_vars

\* A request failed after its Book save was buffered, and the Book still
\* has the copies it was created with.
C5_Witness ==
    \E r \in Reqs :
        /\ req[r].pc = "done"
        /\ req[r].session.commits > 0
        /\ req[r].resp.status = 500
        /\ borrows = <<>>
        /\ \E b \in BookIds : books[b] # Null /\ books[b].copies = copiesAtCreation[b]

\* The generic 500 of borrowBook.
IsBorrowServerError(resp) ==
    /\ resp.status = 500
    /\ resp.json.success = FALSE
    /\ resp.json.error = [name |-> "Error"]
    /\ resp.json.message =
            Msg("Internal server error while processing borrow request")

\* C6: when borrowBook requests on one Book interleave, the committed
\* borrows never total more than the copies the Book had before them, no
\* Book has or is written negative copies, and the request whose save meets
\* the write conflict changes nothing, starts no second transaction and
\* ends with the generic 500.
C6_ConcurrentBorrowsAreAtomic ==
    [][/\ \A b \in BookIds :
            /\ books'[b] # Null =>
                    /\ books'[b].copies >= 0
                    /\ books'[b].copies + SumBorrowed(borrows', b)
                            = copiesAtCreation'[b]
            /\ SumBorrowed(borrows', b) <= (IF copiesAtCreation'[b] < 0 THEN 0
                                            ELSE copiesAtCreation'[b])
       /\ \A r \in Reqs :
            /\ (req[r].pc = "saveBook" /\ WriteConflict(r, req[r].data.book)) =>
                    (Steps(r) => /\ req'[r].pc = "abortCatch"
                                 /\ req'[r].error = MongoError("WriteConflict")
                                 /\ req'[r].pendingBook = Null)
            /\ (req[r].pc = "abortCatch" /\ Steps(r)) =>
                    /\ Finishes(r)
                    /\ IsBorrowServerError(req'[r].resp)
                    /\ req'[r].session.starts = 1
                    /\ req'[r].session.commits = 0
                    /\ books' = books /\ borrows' = borrows]_vars

\* Two requests met on one Book: one committed, the other lost the conflict
\* and was answered 500.
C6_Witness ==
    \E r, o \in Reqs :
        /\ req[r].pc = "done" /\ req[r].resp.status = 201
        /\ req[o].pc = "done" /\ req[o].error = MongoError("WriteConflict")
        /\ req[o].resp.status = 500

\* C7: a borrowBook request that obtained a session has ended it when the
\* handler finishes, whatever the exit path.
C7_SessionAlwaysEnded ==
    \A r \in Reqs :
        (req[r].pc = "done" /\ req[r].session.obtained) => req[r].session.ended

\* Requests have finished through the inner catch and through an early
\* return, their sessions ended.
C7_Witness ==
    \E r, o \in Reqs :
        /\ req[r].pc = "done" /\ req[r].session.ended /\ req[r].resp.status = 500
        /\ req[o].pc = "done" /\ req[o].session.ended /\ req[o].resp.status = 404

C9_AbortBeforeErrorResponse ==
    \A r \in Reqs :
        (req[r].resp # Null /\ req[r].session.starts > 0
            /\ req[r].resp.status # 201) =>
                /\ req[r].session.aborts >= 1
                /\ req[r].session.txn = "aborted"

\* An insufficient-stock rejection was sent after its abort.
C9_Witness ==
    \E r \in Reqs :
        /\ req[r].pc = "done" /\ req[r].resp.status = 400
        /\ req[r].session.txn = "aborted"
        /\ req[r].session.aborts = 1

\* The bodies C10 is about: the id is no ObjectId, the quantity is below 1 or
\* no integer, or the due date is not a date-time strictly after the clock.
InvalidBorrowInput(body, clock) ==
    \/ ~Has(body, "book") \/ ~Has(body, "quantity") \/ ~Has(body, "dueDate")
    \/ ~ObjectIdIsValid(body.book)
    \/ body.quantity < Num(1)
    \/ ~IsInteger(body.quantity)
    \/ ~IsIsoDatetime(body.dueDate)
    \/ body.dueDate <= clock

\* C10: a borrowBook request whose body fails input validation is answered
\* 400 with the validation envelope in its first step: no session is
\* obtained, no transaction started, no document read, no collection changed.
C10_InvalidBorrowRejectedBeforeSession ==
    [][\A r \in Reqs :
            (req[r].pc = "idle" /\ Steps(r)
                /\ InvalidBorrowInput(req'[r].body, now)) =>
                    /\ req'[r].pc = "done"
                    /\ req'[r].resp.status = 400
                    /\ req'[r].resp.json.success = FALSE
                    /\ req'[r].resp.json.error.name = "ValidationError"
                    /\ DOMAIN req'[r].resp.json.error.errors # {}
                    /\ req'[r].session = NoSession
                    /\ req'[r].book = Null
                    /\ books' = books /\ borrows' = borrows]_vars

\* A body whose due date is the present instant was rejected at parse.
C10_Witness ==
    \E r \in Reqs :
        /\ req[r].pc = "done"
        /\ req[r].body # Null
        /\ Has(req[r].body, "dueDate") /\ req[r].body.dueDate = now
        /\ req[r].resp.status = 400
        /\ "dueDate" \in DOMAIN req[r].resp.json.error.errors

\* The one FieldError of a validation envelope, when it holds exactly one.
OnlyFieldError(resp, field) ==
    /\ resp.json.success = FALSE
    /\ resp.json.error.name = "ValidationError"
    /\ DOMAIN resp.json.error.errors = {field}

\* C11: a borrowBook request whose findById returns a Book with available
\* false goes to the availability rejection whatever the Book's copies, and
\* that rejection is a 400 whose one FieldError has path "book", kind
\* "availability" and the requested id as value, with both collections
\* unchanged.
C11_UnavailableBookRejected ==
    [][\A r \in Reqs :
        /\ (req[r].pc = "findById" /\ Steps(r) /\ req'[r].error = Null
                /\ FindById(books, req[r].data.book) # Null
                /\ ~FindById(books, req[r].data.book).available) =>
                    req'[r].pc = "abortUnavailable"
        /\ (req[r].pc = "abortUnavailable" /\ Steps(r)) =>
                /\ Finishes(r)
                /\ req'[r].resp.status = 400
                /\ OnlyFieldError(req'[r].resp, "book")
                /\ LET e == req'[r].resp.json.error.errors["book"]
                   IN  /\ e.path = "book"
                       /\ e.kind = "availability"
                       /\ e.value = req[r].data.book
                       /\ e.message =
                            Msg("Book is currently not available for borrowing")
                /\ books' = books /\ borrows' = borrows]_vars

\* A Book with copies left and available false refused a borrow.
C11_Witness ==
    \E r \in Reqs, b \in BookIds :
        /\ req[r].pc = "done" /\ req[r].resp.status = 400
        /\ OnlyFieldError(req[r].resp, "book")
        /\ req[r].resp.json.error.errors["book"].kind = "availability"
        /\ req[r].resp.json.error.errors["book"].value = b
        /\ books[b] # Null /\ ~books[b].available /\ books[b].copies = MaxCopies

\* C12: a borrowBook request whose findById returns an available Book with
\* fewer copies than the quantity goes to the stock rejection, and that
\* rejection is a 400 whose one FieldError has path "quantity", kind
\* "insufficient_stock", the requested quantity as value and the copies
\* the Book was read with as properties.available, with both collections
\* unchanged.
C12_InsufficientStockRejected ==
    [][\A r \in Reqs :
        /\ (req[r].pc = "findById" /\ Steps(r) /\ req'[r].error = Null
                /\ FindById(books, req[r].data.book) # Null
                /\ FindById(books, req[r].data.book).available
                /\ req[r].data.quantity
                        > FindById(books, req[r].data.book).copies) =>
                    /\ req'[r].pc = "abortStock"
                    /\ req'[r].book = books[req[r].data.book]
        /\ (req[r].pc = "abortStock" /\ Steps(r)) =>
                /\ Finishes(r)
                /\ req'[r].resp.status = 400
                /\ OnlyFieldError(req'[r].resp, "quantity")
                /\ LET e == req'[r].resp.json.error.errors["quantity"]
                   IN  /\ e.path = "quantity"
                       /\ e.kind = "insufficient_stock"
                       /\ e.value = req[r].data.quantity
                       /\ e.properties.available = req[r].book.copies
                       /\ (books[req[r].data.book] = req[r].book =>
                            e.properties.available
                                = books'[req[r].data.book].copies)
                /\ books' = books /\ borrows' = borrows]_vars

\* A request for more than the one copy left was refused and told of it.
C12_Witness ==
    \E r \in Reqs, b \in BookIds :
        /\ req[r].pc = "done" /\ req[r].resp.status = 400
        /\ OnlyFieldError(req[r].resp, "quantity")
        /\ req[r].resp.json.error.errors["quantity"].kind = "insufficient_stock"
        /\ req[r].resp.json.error.errors["quantity"].properties.available = 1
        /\ req[r].resp.json.error.errors["quantity"].value = MaxCopies
        /\ books[b] # Null /\ books[b].available /\ books[b].copies = 1

\* Book b was unavailable and is available after the step.
BecomesAvailable(b) ==
    /\ books[b] # Null /\ ~books[b].available
    /\ books'[b] # Null /\ books'[b].available

\* C13, as stated: a Book whose available is false never has it true in a
\* later state.
C13_AvailableNeverTrueAgain ==
    [][\A b \in BookIds : ~BecomesAvailable(b)]_vars

\* C13, amended: a Book whose available is false has it true after a step
\* only when that step is an updateBook of that Book whose body carries
\* available: true; no createBook, deleteBook or borrowBook step does it.
C13_AvailableTrueAgainOnlyByUpdate ==
    [][\A b \in BookIds :
        BecomesAvailable(b) =>
            /\ req' = MarkStale(req, 0, b)
            /\ borrows' = borrows
            /\ \E body \in UpdateBodies :
                /\ Has(body, "available") /\ body.available
                /\ UpdateBookWrites(books, b, body, FALSE)
                /\ books' = UpdateBookBooks(books, b, body, FALSE)]_vars

\* A Book was borrowed down to nothing twice over: between the two borrows
\* its available flag went from false back to true.
C13_Witness ==
    \E b \in BookIds :
        /\ books[b] # Null /\ ~books[b].available /\ books[b].copies = 0
        /\ SumBorrowed(borrows, b) = 2 * MaxCopies

\* C14: for every Book in the collection, deleteBook with its id answers
\* 200 "Book deleted successfully" with null data and leaves the Book absent
\* and the other Books as they were; a second deleteBook with the same id
\* on what the first one left answers 404 "Book not found" and changes
\* nothing.
C14_DeleteTwice ==
    \A b \in BookIds :
        books[b] # Null =>
            LET first == DeleteBookBooks(books, b, FALSE)
            IN  /\ DeleteBookResponse(books, b, FALSE) =
                    Respond(200,
                        ApiResponse(Msg("Book deleted successfully"), Null))
                /\ first[b] = Null
                /\ \A o \in BookIds \ {b} : first[o] = books[o]
                /\ DeleteBookResponse(first, b, FALSE) =
                    Respond(404,
                        createGenericError(Msg("Book not found"), "NotFoundError"))
                /\ DeleteBookBooks(first, b, FALSE) = first

\* A Book that was created has been deleted, and a second deleteBook for it
\* is answered 404.
C14_Witness ==
    \E b \in BookIds :
        /\ copiesAtCreation[b] >= 0
        /\ books[b] = Null
        /\ DeleteBookResponse(books, b, FALSE).status = 404

\* The fields of a Book other than description.
OtherBookFields == {"title", "author", "genre", "isbn", "copies", "available"}

\* C15: for every Book in the collection and every body that carries
\* description alone, updateBook leaves the Book's title, author, genre,
\* isbn, copies and available as they were and every other Book untouched;
\* when the call does not fail it answers 200 and the Book has the trimmed
\* description.
C15_DescriptionUpdateKeepsOtherFields ==
    \A b \in BookIds, body \in DescriptionBodies, dbFails \in BOOLEAN :
        books[b] # Null =>
            LET after == UpdateBookBooks(books, b, body, dbFails)
            IN  /\ after[b] # Null
                /\ \A f \in OtherBookFields : after[b][f] = books[b][f]
                /\ \A o \in BookIds \ {b} : after[o] = books[o]
                /\ ~dbFails =>
                    /\ UpdateBookResponse(books, b, body, dbFails).status = 200
                    /\ after[b].description = Trim(body.description)
                    /\ UpdateBookResponse(books, b, body, dbFails).json.data
                            = WithId(b, after[b])

\* A Book created unavailable and without stock had its description
\* updated and is still unavailable and without stock.
C15_Witness ==
    \E b \in BookIds :
        /\ books[b] # Null
        /\ Has(books[b], "description") /\ books[b].description = Str("e")
        /\ books[b].title = Str("A")
        /\ ~books[b].available /\ books[b].copies = 0

\* The text fields of a Book.
TextBookFields == {"title", "author", "isbn", "description"}

\* What getBooksById answers for the id a successful createBook of body
\* returned, nothing happening in between.
GetAfterCreate(body) ==
    LET created == CreateBookResponse(books, nextId, body, FALSE)
    IN  GetBooksByIdResponse(CreateBookBooks(books, nextId, body, FALSE),
                             created.json.data._id, FALSE)

\* createBook of body succeeds in this state.
CreateSucceeds(body) ==
    nextId \in BookIds /\ CreateBookError(books, body, FALSE) = Null

\* C16, as stated: after a successful createBook, getBooksById with the
\* returned id answers 200 with a Book whose fields equal the submitted
\* values.
C16_GetReturnsSubmittedValues ==
    \A body \in CatalogueCreateBodies :
        CreateSucceeds(body) =>
            /\ GetAfterCreate(body).status = 200
            /\ \A f \in DOMAIN body :
                    GetAfterCreate(body).json.data[f] =
                        (IF f = "copies" THEN IntOf(body.copies) ELSE body[f])

\* C16, amended: after a successful createBook, getBooksById with the
\* returned id answers 200 with a Book whose text fields are the submitted
\* texts trimmed, whose genre and copies are the submitted ones, whose
\* available is the submitted one or true when none was submitted, and that
\* has a description only when one was submitted.
C16_GetReturnsNormalisedValues ==
    \A body \in CatalogueCreateBodies :
        CreateSucceeds(body) =>
            LET got == GetAfterCreate(body)
            IN  /\ got.status = 200
                /\ got.json.success = TRUE
                /\ got.json.data._id = nextId
                /\ \A f \in DOMAIN body :
                        got.json.data[f] =
                            (CASE f \in TextBookFields -> Trim(body[f])
                               [] f = "copies" -> IntOf(body.copies)
                               [] OTHER -> body[f])
                /\ got.json.data.available =
                        (IF Has(body, "available") THEN body.available ELSE TRUE)
                /\ Has(got.json.data, "description") <=> Has(body, "description")

\* A Book created from a body with a padded description is in the
\* collection, and getBooksById returns it with the description trimmed.
C16_Witness ==
    \E b \in BookIds :
        /\ books[b] # Null
        /\ GetBooksByIdResponse(books, b, FALSE).status = 200
        /\ Has(GetBooksByIdResponse(books, b, FALSE).json.data, "description")
        /\ GetBooksByIdResponse(books, b, FALSE).json.data.description = Str("d")

\* The answer to a write that the unique index on isbn refused.
IsIsbnUniqueError(resp, isbn) ==
    /\ resp.status = 400
    /\ OnlyFieldError(resp, "isbn")
    /\ resp.json.error.errors["isbn"].path = "isbn"
    /\ resp.json.error.errors["isbn"].kind = "unique"
    /\ resp.json.error.errors["isbn"].value = isbn

\* The collection with no Book in it.
NoBooks == [b \in BookIds |-> Null]

\* C17: no two Books in the collection have the same isbn; a createBook
\* whose body would be accepted into an empty collection and whose trimmed
\* isbn a Book already has, and an updateBook of a Book whose accepted body
\* carries an isbn that another Book has, are answered 400 with the one
\* FieldError of path "isbn", kind "unique" and that isbn as value, and leave
\* the collection as it was.
C17_IsbnUnique ==
    /\ \A b, o \in BookIds :
            (b # o /\ books[b] # Null /\ books[o] # Null) =>
                books[b].isbn # books[o].isbn
    /\ \A body \in CatalogueCreateBodies :
            (/\ CreateBookError(NoBooks, body, FALSE) = Null
             /\ \E o \in BookIds :
                    books[o] # Null /\ books[o].isbn = Trim(body.isbn)) =>
                /\ IsIsbnUniqueError(
                        CreateBookResponse(books, nextId, body, FALSE),
                        Trim(body.isbn))
                /\ CreateBookBooks(books, nextId, body, FALSE) = books
    /\ \A b \in BookIds, body \in CatalogueUpdateBodies :
            (/\ books[b] # Null
             /\ Has(body, "isbn")
             /\ UpdateBookError(NoBooks, b, body, FALSE) = Null
             /\ \E o \in BookIds \ {b} :
                    books[o] # Null /\ books[o].isbn = Trim(body.isbn)) =>
                /\ IsIsbnUniqueError(
                        UpdateBookResponse(books, b, body, FALSE),
                        Trim(body.isbn))
                /\ UpdateBookBooks(books, b, body, FALSE) = books

\* Two Books are in the collection; creating a third with the padded isbn
\* of one, and giving one the isbn of the other, are both refused.
C17_Witness ==
    \E b, o \in BookIds :
        /\ b # o /\ books[b] # Null /\ books[o] # Null
        /\ books[b].isbn = Str("1") /\ books[o].isbn = Str("2")
        /\ \E body \in CatalogueCreateBodies :
            /\ body.isbn = Padded(Str("1"))
            /\ CreateBookResponse(books, nextId, body, FALSE).status = 400
        /\ UpdateBookResponse(books, b, [isbn |-> Padded(Str("2"))], FALSE).status
                = 400

\* The 400 for an id that is no ObjectId.
IsIdFormatError(resp, bookId) ==
    /\ resp.status = 400
    /\ OnlyFieldError(resp, "bookId")
    /\ resp.json.error.errors["bookId"].path = "bookId"
    /\ resp.json.error.errors["bookId"].kind = "format"
    /\ resp.json.error.errors["bookId"].value = bookId

\* C18: with a malformed id, getBooksById, updateBook (whatever its body)
\* and deleteBook answer 400 with the one FieldError of path "bookId", kind
\* "format" and the raw id as value, whether or not the persistence layer
\* would fail, and leave the collection as it was.
C18_MalformedIdRejected ==
    \A dbFails \in BOOLEAN :
        /\ IsIdFormatError(
                GetBooksByIdResponse(books, MalformedIdString, dbFails),
                MalformedIdString)
        /\ IsIdFormatError(
                DeleteBookResponse(books, MalformedIdString, dbFails),
                MalformedIdString)
        /\ DeleteBookBooks(books, MalformedIdString, dbFails) = books
        /\ \A body \in CatalogueUpdateBodies \cup UpdateBodies :
                /\ IsIdFormatError(
                        UpdateBookResponse(books, MalformedIdString, body, dbFails),
                        MalformedIdString)
                /\ UpdateBookBooks(books, MalformedIdString, body, dbFails) = books

\* With every Book slot filled, the three handlers refuse the malformed id
\* even where the persistence layer would fail and the body is invalid.
C18_Witness ==
    /\ \A b \in BookIds : books[b] # Null
    /\ GetBooksByIdResponse(books, MalformedIdString, TRUE).status = 400
    /\ DeleteBookResponse(books, MalformedIdString, TRUE).status = 400
    /\ UpdateBookResponse(books, MalformedIdString, [copies |-> Num(-1)], TRUE).status
            = 400

\* C19: a borrowBook request whose findById finds no Book for its
\* well-formed id goes to the not-found return, which aborts the
\* transaction, answers 404 "Book not found" (NotFoundError) and adds no
\* Borrow record; and whenever a Borrow record is committed, the Book it
\* references is in the collection before and after that step, with
\* deleteBook interleaved at every await.
C19_BorrowNeedsExistingBook ==
    [][/\ \A r \in Reqs :
            /\ (req[r].pc = "findById" /\ Steps(r) /\ req'[r].error = Null
                    /\ FindById(books, req[r].data.book) = Null) =>
                        req'[r].pc = "abortNotFound"
            /\ (req[r].pc = "abortNotFound" /\ Steps(r)) =>
                    /\ Finishes(r)
                    /\ req'[r].resp =
                        Respond(404,
                            createGenericError(Msg("Book not found"),
                                               "NotFoundError"))
                    /\ req[r].session.txn = "open"
                    /\ req'[r].session.txn = "aborted"
                    /\ req'[r].session.commits = 0
                    /\ books' = books /\ borrows' = borrows
       /\ Len(borrows') > Len(borrows) =>
            LET b == borrows'[Len(borrows')].book
            IN  /\ b \in BookIds
                /\ books[b] # Null
                /\ books'[b] # Null]_vars

\* A Book was borrowed and then deleted, and a later request for it was
\* answered 404.
C19_Witness ==
    \E r, o \in Reqs :
        /\ r # o
        /\ req[o].pc = "done" /\ req[o].resp.status = 201
        /\ req[r].pc = "done" /\ req[r].resp.status = 404
        /\ req[r].session.txn = "aborted"
        /\ Len(borrows) = 1 /\ books[borrows[1].book] = Null

\* C20: every step leaves the Borrow records there were as they are and in
\* place, and adds one at most; the step in which a borrowBook request is
\* answered 201 adds exactly one, for that request's Book, quantity and due
\* date, and no other step adds any.
C20_BorrowsOnlyAdded ==
    [][/\ Len(borrows') \in {Len(borrows), Len(borrows) + 1}
       /\ SubSeq(borrows', 1, Len(borrows)) = borrows
       /\ \A r \in Reqs :
            (Finishes(r) /\ req'[r].resp.status = 201) =>
                /\ Len(borrows') = Len(borrows) + 1
                /\ borrows'[Len(borrows')] =
                        StoredBorrow(borrows, NewBorrow(req[r].data))
       /\ Len(borrows') = Len(borrows) + 1 =>
            \E r \in Reqs : Finishes(r) /\ req'[r].resp.status = 201]_vars

\* Two Borrow records of a Book outlive the Book's deletion.
C20_Witness ==
    /\ Len(borrows) = 2
    /\ borrows[1].book = borrows[2].book
    /\ books[borrows[1].book] = Null
    /\ \A r \in Reqs : req[r].pc = "done" /\ req[r].resp.status = 201

\* The Books that exist and have a committed Borrow record.
BorrowedBooks(bks, brs) ==
    {b \in BookIds : bks[b] # Null /\ \E i \in DOMAIN brs : brs[i].book = b}

\* The entry the summary is to carry for Book b.
SummaryEntryOf(bks, brs, b) ==
    [book |-> [title |-> bks[b].title, isbn |-> bks[b].isbn],
     totalQuantity |-> SumBorrowed(brs, b)]

\* entries is in descending order of totalQuantity.
IsDescending(entries) ==
    \A i, j \in DOMAIN entries :
        i < j => entries[i].totalQuantity >= entries[j].totalQuantity

\* The 200 of borrowBookSummary around entries.
IsSummaryOk(resp) ==
    /\ resp.status = 200
    /\ resp.json.success = TRUE
    /\ resp.json.message = Msg("Borrowed books summary retrieved successfully")

\* C21: when the aggregation does not fail, borrowBookSummary answers 200
\* with one entry for each Book that still exists and has Borrow records,
\* and no other entry; the entry carries the Book's title and isbn and the
\* sum of the quantities of the Book's Borrow records; the entries are in
\* descending order of totalQuantity; with no Borrow records the list is
\* empty.
C21_SummaryOfExistingBooks ==
    LET resps == BorrowBookSummaryResponses(books, borrows, "none")
    IN  /\ resps # {}
        /\ \A resp \in resps :
            LET entries == resp.json.data
            IN  /\ IsSummaryOk(resp)
                /\ Len(entries) = Cardinality(BorrowedBooks(books, borrows))
                /\ \A b \in BorrowedBooks(books, borrows) :
                        \E i \in DOMAIN entries :
                            entries[i] = SummaryEntryOf(books, borrows, b)
                /\ IsDescending(entries)
                /\ borrows = <<>> => entries = <<>>

\* C21 as stated: the summary has one entry for every Book a Borrow record
\* refers to, whether or not the Book still exists.
C21_SummaryOfReferencedBooks ==
    \A resp \in BorrowBookSummaryResponses(books, borrows, "none") :
        Len(resp.json.data) = Cardinality({borrows[i].book : i \in DOMAIN borrows})

\* Two Books were borrowed in different quantities and the summary lists
\* the one borrowed more first.
C21_Witness ==
    \E resp \in BorrowBookSummaryResponses(books, borrows, "none") :
        /\ Len(resp.json.data) = 2
        /\ resp.json.data[1].totalQuantity > resp.json.data[2].totalQuantity
        /\ resp.json.data[1].book.isbn # resp.json.data[2].book.isbn
\* Every list the summary can return over bks and brs comes with 200 and
\* has as many entries as there are existing borrowed Books, each entry
\* that of one of them.
SummaryRefersToExistingBooks(bks, brs) ==
    \A resp \in BorrowBookSummaryResponses(bks, brs, "none") :
        /\ IsSummaryOk(resp)
        /\ Len(resp.json.data) = Cardinality(BorrowedBooks(bks, brs))
        /\ \A i \in DOMAIN resp.json.data :
                \E b \in BorrowedBooks(bks, brs) :
                    resp.json.data[i] = SummaryEntryOf(bks, brs, b)

\* C30: a step that removes a Book which has Borrow records leaves every
\* Borrow record stored; after every step the summary answers 200 and each
\* of its entries is that of a Book that exists, so a deleted Book has no
\* entry.
C30_DeletedBookLeavesSummary ==
    [][/\ \A b \in BookIds :
            (books[b] # Null /\ books'[b] = Null /\ SumBorrowed(borrows, b) > 0) =>
                /\ borrows' = borrows
                /\ SumBorrowed(borrows', b) > 0
       /\ BorrowBookSummaryResponses(books', borrows', "none") # {}
       /\ SummaryRefersToExistingBooks(books', borrows')]_vars

\* A borrowed Book was deleted, its records are still stored, and the
\* summary lists the other borrowed Book alone.
C30_Witness ==
    \E b, o \in BookIds :
        /\ books[b] = Null /\ SumBorrowed(borrows, b) > 0
        /\ books[o] # Null /\ SumBorrowed(borrows, o) > 0
        /\ \E resp \in BorrowBookSummaryResponses(books, borrows, "none") :
                resp.json.data = <<SummaryEntryOf(books, borrows, o)>>
\* The limit a query asks for: 10 when none is given.
LimitAsked(query) == NumberOf(QueryParam(query, "limit", <<"1", "0">>)).value

\* The queries whose limit, when given, is a numeral of a whole number that
\* is not negative.
WholeLimitQueries ==
    {query \in ListQueries :
        Has(query, "limit") =>
            /\ query.limit # <<>>
            /\ \A i \in DOMAIN query.limit : IsDigit(query.limit[i])}

\* C22: for every query whose limit is absent or a whole number, when find
\* does not fail getAllBooks answers 200 with at most limit Books (10 when
\* none is given), every one of the filter's genre when a filter is given,
\* in ascending order of sortBy, or descending when sort is "desc".
C22_ListCappedFilteredSorted ==
    \A query \in WholeLimitQueries :
        \A resp \in GetAllBooksResponses(books, query, FALSE) :
            /\ resp.status = 200
            /\ Len(resp.json.data) <= LimitAsked(query)
            /\ (Has(query, "filter") /\ query.filter # "") =>
                    \A i \in DOMAIN resp.json.data :
                        resp.json.data[i].genre = query.filter
            /\ \A i, j \in DOMAIN resp.json.data :
                    LET sortBy == QueryParam(query, "sortBy", "createdAt")
                        x == SortValue(books, resp.json.data[i]._id, sortBy)
                        y == SortValue(books, resp.json.data[j]._id, sortBy)
                    IN  i < j => IF Has(query, "sort") /\ query.sort = "desc"
                                 THEN x >= y ELSE x <= y
\* An error that reports invalid data: zod's, or mongoose's from the
\* validators of a schema path.
IsValidationShaped(error) == error.class \in {"ZodError", "ValidationError"}

\* The 400 validation envelope.
IsValidationEnvelope(resp) ==
    /\ resp.status = 400
    /\ resp.json.success = FALSE
    /\ resp.json.error.name = "ValidationError"

\* C23: a borrowBook request that finished with an error thrown after its
\* transaction was opened has called abortTransaction, its transaction is
\* aborted, and its response is the 400 validation envelope when the error
\* is validation-shaped and the generic 500 of borrowBook otherwise.
C23_ThrownAfterOpenAnswered ==
    \A r \in Reqs :
        (req[r].pc = "done" /\ req[r].session.starts > 0 /\ req[r].error # Null) =>
            /\ req[r].session.aborts >= 1
            /\ req[r].session.txn = "aborted"
            /\ IF IsValidationShaped(req[r].error)
               THEN IsValidationEnvelope(req[r].resp)
               ELSE IsBorrowServerError(req[r].resp)
\* One response: a status and an envelope.
IsResponse(resp) ==
    /\ resp.status \in {200, 201, 400, 404, 500}
    /\ resp.json.success \in BOOLEAN

\* Each of the handlers that make one persistence call answers every
\* request, whether the call resolves or rejects.
OneCallHandlersRespond ==
    /\ \A body \in CreateBodies, dbFails \in BOOLEAN :
            IsResponse(CreateBookResponse(books, nextId, body, dbFails))
    /\ \A bookId \in IdStrings, body \in UpdateBodies, dbFails \in BOOLEAN :
            IsResponse(UpdateBookResponse(books, bookId, body, dbFails))
    /\ \A bookId \in IdStrings, dbFails \in BOOLEAN :
            /\ IsResponse(DeleteBookResponse(books, bookId, dbFails))
            /\ IsResponse(GetBooksByIdResponse(books, bookId, dbFails))
    /\ \A query \in ListQueries, dbFails \in BOOLEAN :
            /\ GetAllBooksResponses(books, query, dbFails) # {}
            /\ \A resp \in GetAllBooksResponses(books, query, dbFails) : IsResponse(resp)
    /\ \A failure \in AggregateFailures :
            /\ BorrowBookSummaryResponses(books, borrows, failure) # {}
            /\ \A resp \in BorrowBookSummaryResponses(books, borrows, failure) :
                    IsResponse(resp)

\* C24: every request is answered once.  A borrowBook request has a
\* response exactly when its handler has finished, whatever was thrown on
\* the way; once it has one, the request takes no further step, so nothing
\* is sent after it; and every request that arrived is answered in the end.
\* The other handlers answer every request whether or not their
\* persistence call fails.
C24_ExactlyOneResponse ==
    /\ [](\A r \in Reqs :
            /\ (req[r].pc = "done") <=> (req[r].resp # Null)
            /\ req[r].resp # Null => IsResponse(req[r].resp))
    /\ [](OneCallHandlersRespond)
    /\ [][\A r \in Reqs : req[r].resp # Null => req'[r] = req[r]]_vars
    /\ \A r \in Reqs : (req[r].pc # "idle") ~> (req[r].resp # Null)

\* A request whose commit was rejected, and whose abort the driver then
\* refused, was answered 500; another was answered 201.
C24_Witness ==
    \E r, o \in Reqs :
        /\ req[r].resp # Null /\ req[r].resp.status = 500
        /\ req[r].error = MongoTransactionError
        /\ req[o].resp # Null /\ req[o].resp.status = 201
\* The routing table of the interface: GET / and the seven /api routes.
RoutingTable ==
    {[method |-> "GET", path |-> <<>>, handler |-> "root"],
     [method |-> "POST", path |-> <<"api", "books">>, handler |-> "createBook"],
     [method |-> "GET", path |-> <<"api", "books">>, handler |-> "getAllBooks"],
     [method |-> "GET", path |-> <<"api", "books", ":bookId">>,
      handler |-> "getBooksById"],
     [method |-> "PUT", path |-> <<"api", "books", ":bookId">>,
      handler |-> "updateBook"],
     [method |-> "DELETE", path |-> <<"api", "books", ":bookId">>,
      handler |-> "deleteBook"],
     [method |-> "POST", path |-> <<"api", "borrow">>, handler |-> "borrowBook"],
     [method |-> "GET", path |-> <<"api", "borrow">>, handler |-> "borrowBookSummary"]}

\* path is the path of entry, with any one segment for :bookId.
IsPathOf(entry, path) ==
    /\ Len(path) = Len(entry.path)
    /\ \A i \in DOMAIN path : entry.path[i] \in {path[i], ":bookId"}

\* The entries of the table a method and path match.
TableEntries(method, path) ==
    {entry \in RoutingTable : entry.method = method /\ IsPathOf(entry, path)}

IsRouteNotFound(resp) ==
    /\ resp.status = 404
    /\ resp.json = [success |-> FALSE, message |-> Msg("Route not found"),
                    error |-> [name |-> "NotFoundError"]]

CarriedValue(issue) ==
    IF "received" \in DOMAIN issue THEN issue.received ELSE Null

\* The rule-specific key of properties the claim names for an issue.
HasRuleProperty(issue, properties) ==
    CASE issue.code = "too_small" /\ issue.type = "number" ->
            "min" \in DOMAIN properties /\ properties.min = issue.minimum
      [] issue.code = "too_small" /\ issue.type = "string" ->
            "minLength" \in DOMAIN properties /\ properties.minLength = issue.minimum
      [] issue.code = "too_big" /\ issue.type = "number" ->
            "max" \in DOMAIN properties /\ properties.max = issue.maximum
      [] issue.code = "too_big" /\ issue.type = "string" ->
            "maxLength" \in DOMAIN properties /\ properties.maxLength = issue.maximum
      [] issue.code = "invalid_enum_value" ->
            "enum" \in DOMAIN properties /\ properties.enum = issue.options
      [] OTHER -> TRUE

\* C26: the validation envelope a borrowBook request was answered with for
\* a ZodError has as many entries as the error has issues; every issue has
\* its entry under its joined path, with the issue's code as kind, the
\* value the issue carries, or null when it carries none, and the
\* properties of its rule.
C26_OneFieldErrorPerIssue ==
    \A r \in Reqs :
        (req[r].pc = "done" /\ req[r].error # Null
            /\ req[r].error.class = "ZodError") =>
            LET issues == req[r].error.issues
                errors == req[r].resp.json.error.errors
            IN  /\ Cardinality(DOMAIN errors) = Len(issues)
                /\ \A i \in DOMAIN issues :
                    /\ JoinPath(issues[i].path) \in DOMAIN errors
                    /\ LET entry == errors[JoinPath(issues[i].path)]
                       IN  /\ entry.kind = issues[i].code
                           /\ entry.value = CarriedValue(issues[i])
                           /\ HasRuleProperty(issues[i], entry.properties)
\* C27: with no updateBook and no deleteBook, in every state the borrowBook
\* requests can reach, finished or in flight, committed, rejected or
\* failed, a Book's copies plus the quantities of its committed Borrow
\* records equal the copies it was created with.
C27_CopiesConserved ==
    \A b \in BookIds :
        books[b] # Null =>
            books[b].copies + SumBorrowed(borrows, b) = copiesAtCreation[b]

\* One request on a Book was answered 201 and another was rejected for
\* insufficient stock after its transaction had been opened.
C27_Witness ==
    \E b \in BookIds, r, o \in Reqs :
        /\ books[b] # Null
        /\ SumBorrowed(borrows, b) > 0
        /\ books[b].copies < copiesAtCreation[b]
        /\ req[r].pc = "done" /\ req[r].resp.status = 201
        /\ req[o].pc = "done" /\ req[o].resp.status = 400
        /\ req[o].session.starts = 1 /\ req[o].session.txn = "aborted"
\* The kind of the one FieldError of a validation envelope.
RejectionKind(resp, field) == resp.json.error.errors[field].kind

\* C28: the checks of borrowBook run in the order not-found, availability,
\* stock.  When findById returns no Book the request goes to the 404; when
\* it returns a Book with available false and fewer copies than requested
\* the request goes to the availability rejection and is answered with kind
\* "availability", with no entry for quantity; when it returns a Book with
\* available true and copies 0 the request goes to the stock rejection and
\* is answered with kind "insufficient_stock" and properties.available 0.
C28_RejectionOrder ==
    [][\A r \in Reqs :
        LET book == FindById(books, req[r].data.book)
        IN  /\ (req[r].pc = "findById" /\ Steps(r) /\ req'[r].error = Null) =>
                    /\ book = Null => req'[r].pc = "abortNotFound"
                    /\ (book # Null /\ ~book.available
                            /\ book.copies < req[r].data.quantity) =>
                            req'[r].pc = "abortUnavailable"
                    /\ (book # Null /\ book.available /\ book.copies = 0) =>
                            /\ req'[r].pc = "abortStock"
                            /\ req'[r].book.copies = 0
            /\ (req[r].pc = "abortNotFound" /\ Steps(r)) =>
                    req'[r].resp = BookNotFound
            /\ (req[r].pc = "abortUnavailable" /\ Steps(r)) =>
                    /\ req'[r].resp.status = 400
                    /\ OnlyFieldError(req'[r].resp, "book")
                    /\ RejectionKind(req'[r].resp, "book") = "availability"
            /\ (req[r].pc = "abortStock" /\ Steps(r) /\ req[r].book.copies = 0) =>
                    /\ req'[r].resp.status = 400
                    /\ OnlyFieldError(req'[r].resp, "quantity")
                    /\ RejectionKind(req'[r].resp, "quantity") = "insufficient_stock"
                    /\ req'[r].resp.json.error.errors["quantity"].properties.available
                            = 0]_vars

\* A Book without copies refused one request for its stock, reporting 0
\* available, while its flag was true, and another for its availability
\* once the flag was false.
C28_Witness ==
    \E b \in BookIds, r, o \in Reqs :
        /\ books[b] # Null /\ books[b].copies = 0 /\ ~books[b].available
        /\ copiesAtCreation[b] = 0
        /\ req[r].pc = "done" /\ req[r].resp.status = 400
        /\ OnlyFieldError(req[r].resp, "quantity")
        /\ RejectionKind(req[r].resp, "quantity") = "insufficient_stock"
        /\ req[r].resp.json.error.errors["quantity"].properties.available = 0
        /\ req[o].pc = "done" /\ req[o].resp.status = 400
        /\ OnlyFieldError(req[o].resp, "book")
        /\ RejectionKind(req[o].resp, "book") = "availability"
        /\ req[o].resp.json.error.errors["book"].value = b
\* The Book that request r, about to save, would find now differs from the
\* one it read: it is gone, its copies are not those the deduction started
\* from, or it is no longer available.
ReadIsStale(r) ==
    LET current == FindById(books, req[r].data.book)
    IN  \/ current = Null
        \/ current.copies # req[r].book.copies + req[r].data.quantity
        \/ ~current.available

\* C29: a borrowBook request whose Book was changed between its read and
\* its save fails at the save with nothing buffered, and a request that
\* ends without 201 changes neither collection; a commit writes the copies
\* current at the commit minus the quantity, sets available to false only
\* when that is 0, and leaves every other field of the Book as it is at the
\* commit, so no update is overwritten.
C29_UpdateNotOverwritten ==
    [][\A r \in Reqs :
        /\ (req[r].pc = "saveBook" /\ Steps(r) /\ ReadIsStale(r)) =>
                /\ req'[r].pc = "abortCatch"
                /\ req'[r].pendingBook = Null
                /\ books' = books /\ borrows' = borrows
        /\ (Finishes(r) /\ req'[r].resp.status # 201) =>
                books' = books /\ borrows' = borrows
        /\ (Finishes(r) /\ req'[r].resp.status = 201) =>
                LET b == req[r].data.book
                IN  /\ books[b] # Null /\ books'[b] # Null
                    /\ books'[b].copies = books[b].copies - req[r].data.quantity
                    /\ books'[b].available =
                            (IF books'[b].copies = 0 THEN FALSE
                             ELSE books[b].available)
                    /\ DOMAIN books'[b] = DOMAIN books[b]
                    /\ \A f \in DOMAIN books[b] \ {"copies", "available"} :
                            books'[b][f] = books[b][f]]_vars

\* A borrow met a write conflict although no other borrow was in flight,
\* and the Book, never borrowed, has other copies than it was created
\* with: an update came between the read and the save, and it stands.
C29_Witness ==
    \E r \in Reqs, b \in BookIds :
        /\ req[r].pc = "done"
        /\ req[r].error = MongoError("WriteConflict")
        /\ req[r].resp.status = 500
        /\ books[b] # Null
        /\ borrows = <<>>
        /\ books[b].copies # copiesAtCreation[b]
====
